---- MODULE Spec2Model ----
(***************************************************************************)
(* Verification model of the batched level-wise decision-tree kernels      *)
(* (cpp/src/decisiontree/batched-levelalgo/kernels.cuh) and of the forest  *)
(* inference test harness (FIL).                                           *)
(*                                                                         *)
(* SpecPart   : nodeSplitKernel / partitionSamples over the levels of a tree *)
(* SpecSelect : select and fnv1a32                                           *)
(* SpecSplit  : computeSplitKernel over the blocks of one node               *)
(* SpecFil    : setup_helper of the forest inference tests                   *)
(***************************************************************************)
EXTENDS Integers, Sequences, FiniteSets, TLC

(***************************************************************************)
(* Bounds of the model                                                     *)
(***************************************************************************)
\* number of rows of the training matrix (input.M) and of row ids
NumRows == 4
\* threads per block (template parameter TPB, blockDim.x)
TPB == 2
\* depth below which a child still becomes a work item
MaxDepth == 1

(***************************************************************************)
(* Small helpers                                                           *)
(***************************************************************************)
Min(a, b) == IF a < b THEN a ELSE b

RECURSIVE SumTo(_, _)
\* f[0] + ... + f[n-1]
SumTo(f, n) == IF n <= 0 THEN 0 ELSE f[n - 1] + SumTo(f, n - 1)

Threads == 0 .. (TPB - 1)

\* cub::BlockScan::ExclusiveSum of the per-thread flags: lidx of thread t
ExclusiveSum(flag, t) == SumTo(flag, t)
\* the block aggregate of the scan
BlockAggregate(flag) == SumTo(flag, TPB)

(***************************************************************************)
(* Inputs of the training kernels                                          *)
(***************************************************************************)
Cols == {0, 1}
DataVals == {0, 1}
QuesVals == {0}
Gains == {0, 1}

VARIABLES
  data,                   \* input.data, column major: data[colid * M + row]
  rowids,                 \* input.rowids, positions 0 .. M-1
  min_samples_leaf,
  min_impurity_decrease,
  work_items,             \* NodeWorkItem array of the current level
  splits,                 \* Split array of the current level
  cta,                    \* per block of nodeSplitKernel: its registers
  launch_rowids,          \* rowids when the level's kernel was launched
  node_instances,         \* InstanceRange of every tree node created so far
  parent,                 \* parent[n]: tree index of the parent of node n (0: none)
  phase                   \* "kernel": blocks running, "built": tree finished

partVars == <<data, rowids, min_samples_leaf, min_impurity_decrease, work_items,
              splits, cta, launch_rowids, node_instances, parent, phase>>

\* select(k, treeid, nodeid, seed, N) as called by the blocks of one node
VARIABLES
  treeid,                 \* argument treeid
  nodeid,                 \* argument nodeid (work_item.idx)
  seed,                   \* argument seed: <<seed >> 32, uint32_t(seed)>>
  N,                      \* argument N (input.N)
  colliding,              \* candidates whose hashes are given (see SelInit)
  sel_k,                  \* argument k of the call in progress, -1 when none
  cnt,                    \* cnt of every thread
  blksum,                 \* __shared__ int blksum
  added,                  \* threads past their atomicAdd
  ret,                    \* ret[t]: blksum as read by thread t for its return, -1: not yet
  perm,                   \* perm[k]: value returned by the last call for k, -1: none
  ncalls                  \* ncalls[k]: completed calls for k

selVars == <<treeid, nodeid, seed, N, colliding, sel_k, cnt, blksum, added, ret, perm,
             ncalls>>

\* computeSplitKernel over the blocks of one node (nid) of the level
VARIABLES
  input,                  \* Input<DataT, LabelT, IdxT>: data, labels, rowids, quantiles, M, N
  node_item,              \* work_items[nid] of the nodes of the launch
  workload_info,          \* workload_info[blockIdx.x]
  hist,                   \* hist: global histogram at large_nid * gridDim.y + blockIdx.y
  done_count,             \* done_count[nid * gridDim.y + blockIdx.y]
  mutex,                  \* mutex[nid]
  node_split,             \* splits[nid]
  blk,                    \* per block <<blockIdx.x, blockIdx.y>>: pc, shared_histogram, sp,
                          \* and cur, the record read from splits[nid] under the mutex
  updates                 \* blocks in the order in which they updated splits[nid]

splitVars == <<input, node_item, workload_info, hist, done_count, mutex, node_split,
               blk, updates>>

\* the forest inference tests: setup_helper of one test
VARIABLES
  ps,                     \* FilTestParams, and the test class in ps.test
  nodes,                  \* std::vector<fil::dense_node> nodes
  cat_sets_h,             \* cat_sets_owner cat_sets_h: bits and fid_num_cats
  data_h,                 \* input rows
  want_preds_h,           \* predictions of predict_on_cpu, <<>> before it ran
  want_proba_h,           \* probabilities of predict_on_cpu, <<>> before it ran
  sparse_nodes,           \* std::vector<fil_node_t> sparse_nodes
  trees,                  \* std::vector<int> trees: root of every sparse tree
  calls,                  \* pending calls of dense2sparse_node, innermost first
  tl_model,               \* the treelite model built by init_forest_impl
  forest,                 \* the forest handed to fil::predict
  thrown,                 \* a raft::exception left setup_helper
  preds_h,                \* predictions of fil::predict, <<>> before it ran
  proba_h,                \* probabilities of fil::predict, <<>> before it ran
  predicts,               \* predict_proba of the calls of fil::predict so far
  fil_pc                  \* position in setup_helper

filVars == <<ps, nodes, cat_sets_h, data_h, want_preds_h, want_proba_h, sparse_nodes,
             trees, calls, tl_model, forest, thrown, preds_h, proba_h, predicts, fil_pc>>

\* one call of lower_bound: its arguments, its locals start and end, the loop
\* iterations so far and its position
VARIABLES
  lb

lbVars == <<lb>>

vars == <<partVars, selVars, splitVars, filVars, lbVars>>

\* what the actions of one group leave alone
notPart == <<selVars, splitVars, filVars, lbVars>>
notSel == <<partVars, splitVars, filVars, lbVars>>
notSplit == <<partVars, selVars, filVars, lbVars>>
notFil == <<partVars, selVars, splitVars, lbVars>>
notLb == <<partVars, selVars, splitVars, filVars>>

\* the kernels of a group that is not exercised by a specification stay idle
PartOff ==
  /\ data = <<>> /\ rowids = <<>> /\ min_samples_leaf = 0 /\ min_impurity_decrease = 0
  /\ work_items = <<>> /\ splits = <<>> /\ cta = <<>> /\ launch_rowids = <<>>
  /\ node_instances = <<>> /\ parent = <<>> /\ phase = "off"

SelOff ==
  /\ treeid = 0 /\ nodeid = 0 /\ seed = <<0, 0>> /\ N = 0 /\ colliding = <<>>
  /\ sel_k = -1 /\ cnt = <<>> /\ blksum = 0 /\ added = {} /\ ret = <<>> /\ perm = <<>>
  /\ ncalls = <<>>

SplitOff ==
  /\ input = <<>> /\ node_item = <<>> /\ workload_info = <<>> /\ hist = <<>>
  /\ done_count = <<>> /\ mutex = <<>> /\ node_split = <<>> /\ blk = <<>> /\ updates = <<>>

FilOff ==
  /\ ps = <<>> /\ nodes = <<>> /\ cat_sets_h = <<>> /\ data_h = <<>>
  /\ want_preds_h = <<>> /\ want_proba_h = <<>>
  /\ sparse_nodes = <<>> /\ trees = <<>> /\ calls = <<>> /\ tl_model = <<>>
  /\ forest = <<>> /\ thrown = FALSE /\ preds_h = <<>> /\ proba_h = <<>>
  /\ predicts = <<>>
  /\ fil_pc = "off"

LbOff == lb = <<>>

\* struct InstanceRange
InstanceRange(b, c) == [begin |-> b, count |-> c]
\* struct NodeWorkItem
NodeWorkItem(i, d, r) == [idx |-> i, depth |-> d, instances |-> r]

\* Split<DataT, IdxT> as read by the kernels of this file
\* parameter min_samples_split of the level kernels
min_samples_split == 2

Split(q, c, g, n) == [quesval |-> q, colid |-> c, best_metric_val |-> g, nLeft |-> n]

\* variant: a gain equal to the threshold passes (strict comparison)
SplitNotValid_strict(split, min_impurity_decrease_, min_samples_leaf_, num_rows) ==
  \/ split.best_metric_val < min_impurity_decrease_
  \/ split.nLeft < min_samples_leaf_
  \/ (num_rows - split.nLeft) < min_samples_leaf_

\* variant: the gain is not looked at, only the sizes of the two sides
SplitNotValid_nogain(split, min_impurity_decrease_, min_samples_leaf_, num_rows) ==
  \/ split.nLeft < min_samples_leaf_
  \/ (num_rows - split.nLeft) < min_samples_leaf_

SplitNotValid(split, min_impurity_decrease_, min_samples_leaf_, num_rows) ==
  \/ split.best_metric_val <= min_impurity_decrease_
  \/ split.nLeft < min_samples_leaf_
  \/ (num_rows - split.nLeft) < min_samples_leaf_

\* col[rowids[pos]] of partitionSamples: col = input.data + split.colid * input.M
ColAt(split, rids, pos) == data[split.colid * NumRows + rids[pos]]

\* variant: the partition point taken relative to position 0, not to range_start
EnterPartition_nostart(split, work_item) ==
  LET range_start == work_item.instances.begin
      range_len == work_item.instances.count
  IN [pc |-> "loop",
      loffset |-> range_start,
      part |-> split.nLeft,
      roffset |-> split.nLeft,
      end |-> range_start + range_len,
      lflag |-> [t \in Threads |-> 0],
      rflag |-> [t \in Threads |-> 0],
      llen |-> 0, rlen |-> 0, minlen |-> 0,
      iters |-> 0]

\* variant: the right part runs to the end of the row-id array
EnterPartition_noend(split, work_item) ==
  LET range_start == work_item.instances.begin
  IN [pc |-> "loop",
      loffset |-> range_start,
      part |-> range_start + split.nLeft,
      roffset |-> range_start + split.nLeft,
      end |-> NumRows,
      lflag |-> [t \in Threads |-> 0],
      rflag |-> [t \in Threads |-> 0],
      llen |-> 0, rlen |-> 0, minlen |-> 0,
      iters |-> 0]

\* registers of one block at the entry of partitionSamples
EnterPartition(split, work_item) ==
  LET range_start == work_item.instances.begin
      range_len == work_item.instances.count
  IN [pc |-> "loop",
      loffset |-> range_start,
      part |-> range_start + split.nLeft,
      roffset |-> range_start + split.nLeft,
      end |-> range_start + range_len,
      lflag |-> [t \in Threads |-> 0],
      rflag |-> [t \in Threads |-> 0],
      llen |-> 0, rlen |-> 0, minlen |-> 0,
      iters |-> 0]

\* lines 97: the loop condition of partitionSamples
LoopCond(c) == c.loffset < c.part /\ c.roffset < c.end

\* variant: a row whose value equals quesval is taken for a misfit of the left part
LeftMisfit_ge(split, rids, loff, part) ==
  IF loff < part THEN (IF ColAt(split, rids, loff) >= split.quesval THEN 1 ELSE 0) ELSE 0

\* line 100: a row in the left part that belongs to the right part
LeftMisfit(split, rids, loff, part) ==
  IF loff < part THEN (IF ColAt(split, rids, loff) > split.quesval THEN 1 ELSE 0) ELSE 0

\* line 101: a row in the right part that belongs to the left part
RightMisfit(split, rids, roff, end) ==
  IF roff < end THEN (IF ColAt(split, rids, roff) <= split.quesval THEN 1 ELSE 0) ELSE 0

\* variant: the misfit of the right part is copied to the left and not replaced
SwapMisfits_copy(rids, lcomp, rcomp, minlen) ==
  [p \in DOMAIN rids |->
     IF \E t \in 0 .. (minlen - 1) : lcomp[t] = p
       THEN rids[rcomp[CHOOSE t \in 0 .. (minlen - 1) : lcomp[t] = p]]
     ELSE rids[p]]

\* lines 118-123: thread tid < minlen swaps rowids[lcomp[tid]] and rowids[rcomp[tid]]
SwapMisfits(rids, lcomp, rcomp, minlen) ==
  [p \in DOMAIN rids |->
     IF \E t \in 0 .. (minlen - 1) : lcomp[t] = p
       THEN rids[rcomp[CHOOSE t \in 0 .. (minlen - 1) : lcomp[t] = p]]
     ELSE IF \E t \in 0 .. (minlen - 1) : rcomp[t] = p
       THEN rids[lcomp[CHOOSE t \in 0 .. (minlen - 1) : rcomp[t] = p]]
     ELSE rids[p]]

\* variant: only the cursor of the side with more misfits moves on
AdvanceCursor_longer(offset, len, minlen) == IF len > minlen THEN offset + TPB ELSE offset

\* lines 115-116: if (llen == minlen) loffset += TPB; if (rlen == minlen) roffset += TPB
AdvanceCursor(offset, len, minlen) == IF len = minlen THEN offset + TPB ELSE offset

\* lines 98-123: one iteration of the while loop, executed by the TPB threads of
\* the block between its barriers; gives the registers and the row ids after it
partitionSamples(c, split, rids) ==
  LET lflag1 == [t \in Threads |->
                   IF c.llen = c.minlen
                     THEN LeftMisfit(split, rids, c.loffset + t, c.part)
                     ELSE c.lflag[t]]
      rflag1 == [t \in Threads |->
                   IF c.rlen = c.minlen
                     THEN RightMisfit(split, rids, c.roffset + t, c.end)
                     ELSE c.rflag[t]]
      lidx == [t \in Threads |-> ExclusiveSum(lflag1, t)]
      ridx == [t \in Threads |-> ExclusiveSum(rflag1, t)]
      llen1 == BlockAggregate(lflag1)
      rlen1 == BlockAggregate(rflag1)
      minlen1 == Min(llen1, rlen1)
      \* compaction: lcomp[lidx] = loff of the flagged threads
      lcomp == [j \in 0 .. (llen1 - 1) |->
                  c.loffset + (CHOOSE t \in Threads : lflag1[t] = 1 /\ lidx[t] = j)]
      rcomp == [j \in 0 .. (rlen1 - 1) |->
                  c.roffset + (CHOOSE t \in Threads : rflag1[t] = 1 /\ ridx[t] = j)]
  IN [cta |-> [c EXCEPT
                 !.lflag = [t \in Threads |-> IF lidx[t] < minlen1 THEN 0 ELSE lflag1[t]],
                 !.rflag = [t \in Threads |-> IF ridx[t] < minlen1 THEN 0 ELSE rflag1[t]],
                 !.llen = llen1, !.rlen = rlen1, !.minlen = minlen1,
                 !.loffset = AdvanceCursor(c.loffset, llen1, minlen1),
                 !.roffset = AdvanceCursor(c.roffset, rlen1, minlen1),
                 !.iters = c.iters + 1],
      rowids |-> SwapMisfits(rids, lcomp, rcomp, minlen1)]

Blocks == 1 .. Len(work_items)

\* variant: the kernel partitions without testing the split
nodeSplitKernel_always(b) ==
  /\ phase = "kernel"
  /\ cta[b].pc = "start"
  /\ cta' = [cta EXCEPT ![b] = EnterPartition(splits[b], work_items[b])]
  /\ UNCHANGED notPart
  /\ UNCHANGED <<data, rowids, min_samples_leaf, min_impurity_decrease, work_items,
                 splits, launch_rowids, node_instances, parent, phase>>

\* nodeSplitKernel, lines 137-142: the block reads its work item and split and
\* returns when the split is not valid, otherwise enters partitionSamples
nodeSplitKernel(b) ==
  /\ phase = "kernel"
  /\ cta[b].pc = "start"
  /\ LET work_item == work_items[b]
         split == splits[b]
     IN cta' = [cta EXCEPT ![b] =
                  IF SplitNotValid(split, min_impurity_decrease, min_samples_leaf,
                                   work_item.instances.count)
                    THEN [cta[b] EXCEPT !.pc = "rejected"]
                    ELSE EnterPartition(split, work_item)]
  /\ UNCHANGED notPart
  /\ UNCHANGED <<data, rowids, min_samples_leaf, min_impurity_decrease, work_items,
                 splits, launch_rowids, node_instances, parent, phase>>

\* one iteration of the loop of partitionSamples by block b
PartitionStep(b) ==
  /\ phase = "kernel"
  /\ cta[b].pc = "loop"
  /\ LoopCond(cta[b])
  /\ LET r == partitionSamples(cta[b], splits[b], rowids)
     IN /\ cta' = [cta EXCEPT ![b] = r.cta]
        /\ rowids' = r.rowids
  /\ UNCHANGED notPart
  /\ UNCHANGED <<data, min_samples_leaf, min_impurity_decrease, work_items,
                 splits, launch_rowids, node_instances, parent, phase>>

\* the loop condition fails: partitionSamples and the kernel return
PartitionExit(b) ==
  /\ phase = "kernel"
  /\ cta[b].pc = "loop"
  /\ ~LoopCond(cta[b])
  /\ cta' = [cta EXCEPT ![b].pc = "done"]
  /\ UNCHANGED notPart
  /\ UNCHANGED <<data, rowids, min_samples_leaf, min_impurity_decrease, work_items,
                 splits, launch_rowids, node_instances, parent, phase>>

\* registers of a block that has not started yet
LaunchedCta ==
  [pc |-> "start", loffset |-> 0, part |-> 0, roffset |-> 0, end |-> 0,
   lflag |-> [t \in Threads |-> 0], rflag |-> [t \in Threads |-> 0],
   llen |-> 0, rlen |-> 0, minlen |-> 0, iters |-> 0]

\* the splits a level can be handed for one work item: any column, threshold and
\* gain, and a left count between 0 and the node's row count
SplitsFor(work_item) ==
  {Split(q, c, g, n) : q \in QuesVals, c \in Cols, g \in Gains,
                       n \in 0 .. work_item.instances.count}

RECURSIVE SplitSeqs(_)
SplitSeqs(items) ==
  IF items = <<>> THEN {<<>>}
  ELSE {<<s>> \o rest : s \in SplitsFor(Head(items)), rest \in SplitSeqs(Tail(items))}

\* a child becomes a work item of the next level only when it has enough rows to
\* be split (parameter min_samples_split of the level kernels)
IsExpandable(range) == range.count >= min_samples_split

RECURSIVE PushFrom(_, _)
\* the builder's update of the tree after a level: work item i and the following
\* ones, given st = [node_instances, parent, work_items] built so far.  A node
\* with a rejected split stays a leaf; an accepted split gives the node a left
\* child over [begin, begin + nLeft) and a right child over the rest of its range
PushFrom(i, st) ==
  IF i > Len(work_items) THEN st
  ELSE
    LET item == work_items[i]
        split == splits[i]
        range == item.instances
    IN IF SplitNotValid(split, min_impurity_decrease, min_samples_leaf, range.count)
         THEN PushFrom(i + 1, st)
         ELSE
           LET left == InstanceRange(range.begin, split.nLeft)
               right == InstanceRange(range.begin + split.nLeft, range.count - split.nLeft)
               n == Len(st.node_instances)
               deeper == item.depth + 1 <= MaxDepth
           IN PushFrom(i + 1,
                [node_instances |-> st.node_instances \o <<left, right>>,
                 parent |-> st.parent \o <<item.idx, item.idx>>,
                 work_items |->
                   st.work_items
                   \o (IF deeper /\ IsExpandable(left)
                         THEN <<NodeWorkItem(n + 1, item.depth + 1, left)>> ELSE <<>>)
                   \o (IF deeper /\ IsExpandable(right)
                         THEN <<NodeWorkItem(n + 2, item.depth + 1, right)>> ELSE <<>>)])

\* all blocks of the level's nodeSplitKernel have returned: the builder derives the
\* children and the next level's work items, and launches the next level
Push ==
  /\ phase = "kernel"
  /\ \A b \in Blocks : cta[b].pc \in {"rejected", "done"}
  /\ LET st == PushFrom(1, [node_instances |-> node_instances, parent |-> parent,
                            work_items |-> <<>>])
     IN /\ node_instances' = st.node_instances
        /\ parent' = st.parent
        /\ work_items' = st.work_items
        /\ splits' \in SplitSeqs(st.work_items)
        /\ cta' = [b \in 1 .. Len(st.work_items) |-> LaunchedCta]
        /\ phase' = IF st.work_items = <<>> THEN "built" ELSE "kernel"
  /\ launch_rowids' = rowids
  /\ UNCHANGED notPart
  /\ UNCHANGED <<data, rowids, min_samples_leaf, min_impurity_decrease>>

\* the feature matrix: column 0 is free, column c holds the values of column 0
\* shifted by c, so that the columns differ
DataSets ==
  {[i \in 0 .. (2 * NumRows - 1) |->
      IF i < NumRows THEN col0[i] ELSE 1 - col0[i - NumRows]] :
     col0 \in [0 .. (NumRows - 1) -> DataVals]}

\* row ids of a tree: all rows, or a bootstrap sample with a repeated row
RowIdSets ==
  {[i \in 0 .. (NumRows - 1) |-> i]}

RootItem == NodeWorkItem(1, 0, InstanceRange(0, NumRows))

PartInit ==
  /\ data \in DataSets
  /\ rowids \in RowIdSets
  /\ launch_rowids = rowids
  /\ min_samples_leaf \in {0, 1}
  /\ min_impurity_decrease \in {0, 1}
  /\ work_items = <<RootItem>>
  /\ splits \in SplitSeqs(<<RootItem>>)
  /\ cta = <<LaunchedCta>>
  /\ node_instances = <<RootItem.instances>>
  /\ parent = <<0>>
  /\ phase = "kernel"
  /\ SelOff /\ SplitOff /\ FilOff /\ LbOff

PartNext ==
  \/ \E b \in Blocks : nodeSplitKernel(b)
  \/ \E b \in Blocks : PartitionStep(b)
  \/ \E b \in Blocks : PartitionExit(b)
  \/ Push

SpecPart == PartInit /\ [][PartNext]_vars

(***************************************************************************)
(* Claims about nodeSplitKernel and partitionSamples                       *)
(***************************************************************************)
\* positions of the instance range of block b
RangeOf(b) ==
  work_items[b].instances.begin ..
    (work_items[b].instances.begin + work_items[b].instances.count - 1)

\* value of the split column of the row at position p of rids
ValueAt(b, rids, p) == data[splits[b].colid * NumRows + rids[p]]

\* rows of the range of b that the split sends left, counted at kernel launch
TrueLeft(b) ==
  Cardinality({p \in RangeOf(b) : ValueAt(b, launch_rowids, p) <= splits[b].quesval})

\* number of positions of S at which rids holds row r
Occurrences(rids, S, r) == Cardinality({p \in S : rids[p] = r})

SameMultiset(b) ==
  \A r \in 0 .. (NumRows - 1) :
    Occurrences(rowids, RangeOf(b), r) = Occurrences(launch_rowids, RangeOf(b), r)

\* C1: when partitionSamples has returned for a node whose split's nLeft is the
\* number of rows of the range with split-column value <= quesval, the first
\* nLeft positions of the range hold rows with value <= quesval, the others rows
\* with value > quesval, and the range holds the same multiset of row ids as at
\* the call.
C1_PartitionSeparates ==
  \A b \in Blocks :
    (cta[b].pc = "done" /\ splits[b].nLeft = TrueLeft(b)) =>
      /\ \A p \in RangeOf(b) :
           IF p < work_items[b].instances.begin + splits[b].nLeft
             THEN ValueAt(b, rowids, p) <= splits[b].quesval
             ELSE ValueAt(b, rowids, p) > splits[b].quesval
      /\ SameMultiset(b)

\* a partition of a range that does not start at 0, with the true left count,
\* that took two iterations and moved rows
C1_Witness ==
  \E b \in Blocks :
    /\ cta[b].pc = "done"
    /\ splits[b].nLeft = TrueLeft(b)
    /\ cta[b].iters >= 2
    /\ \E p \in RangeOf(b) : rowids[p] # launch_rowids[p]

\* the three tests of the claim, written out on the split of block b
Rejects(b) ==
  \/ splits[b].best_metric_val <= min_impurity_decrease
  \/ splits[b].nLeft < min_samples_leaf
  \/ work_items[b].instances.count - splits[b].nLeft < min_samples_leaf

\* C2: a block of nodeSplitKernel that has evaluated SplitNotValid returned as
\* rejected exactly when gain <= min_impurity_decrease, or nLeft <
\* min_samples_leaf, or count - nLeft < min_samples_leaf; in particular a gain
\* equal to the threshold is rejected and a split passing the three tests is not.
C2_RejectedExactly ==
  \A b \in Blocks :
    cta[b].pc # "start" =>
      /\ (cta[b].pc = "rejected") <=> Rejects(b)
      /\ splits[b].best_metric_val = min_impurity_decrease => cta[b].pc = "rejected"

\* a split rejected only because its gain equals the threshold
C2_Witness ==
  \E b \in Blocks :
    /\ cta[b].pc = "rejected"
    /\ splits[b].best_metric_val = min_impurity_decrease
    /\ splits[b].nLeft >= min_samples_leaf
    /\ work_items[b].instances.count - splits[b].nLeft >= min_samples_leaf

\* the row ids of the range of b are those of the kernel launch
RangeUntouched(b) == \A p \in RangeOf(b) : rowids[p] = launch_rowids[p]

\* C3: for a work item whose split SplitNotValid rejects, nodeSplitKernel leaves
\* the row ids of the node's range as they were at launch, and the step that
\* derives the next level creates no child of that node.
C3_RejectedIsLeaf ==
  /\ [](\A b \in Blocks :
          (cta[b].pc # "start" /\ Rejects(b)) => RangeUntouched(b))
  /\ [][\A b \in Blocks :
          Rejects(b) =>
            \A n \in 1 .. Len(parent') :
              n > Len(parent) => parent'[n] # work_items[b].idx]_vars

\* a rejected node (gain not above the threshold) whose range holds misfits for
\* its split, next to a sibling whose block has moved rows
C3_Witness ==
  \E b \in Blocks :
    /\ cta[b].pc = "rejected"
    /\ splits[b].best_metric_val <= min_impurity_decrease
    /\ splits[b].nLeft > 0
    /\ ValueAt(b, rowids, work_items[b].instances.begin) > splits[b].quesval
    /\ rowids # launch_rowids

\* the positions of an instance range
Positions(range) == range.begin .. (range.begin + range.count - 1)

\* the tree indices of the children of node n
ChildrenOf(n) == {c \in 1 .. Len(parent) : parent[c] = n}

\* C4: the two children of a split node cover the contiguous slices
\* [begin, begin + nLeft) and [begin + nLeft, begin + count) of their parent's
\* range (the two parts partitionSamples separated at `part`); the ranges of the
\* active work items are pairwise disjoint and every node lies in its parent's range.
C4_ChildRanges ==
  /\ [](/\ \A n \in 1 .. Len(parent) :
            parent[n] # 0 =>
              Positions(node_instances[n]) \subseteq Positions(node_instances[parent[n]])
        /\ \A n \in 1 .. Len(parent) :
            ChildrenOf(n) # {} =>
              \E l \in ChildrenOf(n) :
                /\ ChildrenOf(n) = {l, l + 1}
                /\ node_instances[l].begin = node_instances[n].begin
                /\ node_instances[l + 1].begin =
                     node_instances[l].begin + node_instances[l].count
                /\ node_instances[l].count + node_instances[l + 1].count =
                     node_instances[n].count
        /\ \A i, j \in Blocks :
            i # j => Positions(work_items[i].instances)
                       \cap Positions(work_items[j].instances) = {}
        /\ \A i \in Blocks :
            work_items[i].instances = node_instances[work_items[i].idx])
  /\ [][\A b \in Blocks :
          (cta[b].pc = "done" /\ \A c \in Blocks : cta[c].pc \in {"rejected", "done"}) =>
            \E l \in 1 .. Len(parent') :
              /\ l > Len(parent)
              /\ parent'[l] = work_items[b].idx
              /\ Positions(node_instances'[l]) =
                   work_items[b].instances.begin .. (cta[b].part - 1)
              /\ Positions(node_instances'[l + 1]) = cta[b].part .. (cta[b].end - 1)]_vars

\* both children of the root were split again, into non-empty grandchildren
C4_Witness ==
  /\ Len(node_instances) = 7
  /\ \A n \in 4 .. 7 : node_instances[n].count > 0
  /\ node_instances[6].begin > 0
  /\ parent[6] = 3

(***************************************************************************)
(* select: the k-th entry of a pseudo-random permutation of [0, N-1]       *)
(***************************************************************************)
\* largest number of candidate columns (input.N) tried
SelMaxN == 4
\* how often select is called with the same arguments
SelMaxCalls == 2

fnv1a32_prime == 16777619

\* 32-bit words are kept as <<high 16 bits, low 16 bits>>
Word(hi, lo) == <<hi, lo>>

\* fnv1a32_basis = uint32_t(2166136261) = 0x811C9DC5
fnv1a32_basis == Word(33052, 40389)

RECURSIVE Xor(_, _)
\* bitwise exclusive or of two naturals
Xor(a, b) ==
  IF a = 0 THEN b
  ELSE IF b = 0 THEN a
  ELSE (((a % 2) + (b % 2)) % 2) + 2 * Xor(a \div 2, b \div 2)

\* hash ^= byte, for byte in 0 .. 255
XorByte(hash, byte) == Word(hash[1], (hash[2] - (hash[2] % 256)) + Xor(hash[2] % 256, byte))

\* hash *= fnv1a32_prime, modulo 2^32
MulPrime(hash) ==
  LET ph == fnv1a32_prime \div 65536
      pl == fnv1a32_prime % 65536
      low == hash[2] * pl
  IN Word(((hash[1] * pl) + (hash[2] * ph) + (low \div 65536)) % 65536, low % 65536)

\* (txt >> (8 * j)) & 0xFF
ByteOf(txt, j) ==
  CASE j = 0 -> txt % 256
    [] j = 1 -> (txt \div 256) % 256
    [] j = 2 -> (txt \div 65536) % 256
    [] j = 3 -> (txt \div 16777216) % 256

RECURSIVE HashBytes(_, _, _)
\* the rounds hash ^= byte j of txt; hash *= fnv1a32_prime for j = from .. 3
HashBytes(hash, txt, from) ==
  IF from > 3 THEN hash
  ELSE LET h == MulPrime(XorByte(hash, ByteOf(txt, from)))
       IN IF h[1] >= 0 THEN HashBytes(h, txt, from + 1) ELSE h

\* HDI uint32_t fnv1a32(uint32_t hash, uint32_t txt)
fnv1a32(hash, txt) == HashBytes(hash, txt, 0)

\* a < b for 32-bit words
WordLess(a, b) == a[1] < b[1] \/ (a[1] = b[1] /\ a[2] < b[2])

\* the hash of candidate i: fnv1a32 over i, treeid, nodeid and the two halves of
\* the seed (lines 217-222 for the pivot, 229-234 for the other candidates)
CandidateHash(i) ==
  IF i \in DOMAIN colliding THEN colliding[i]
  ELSE LET h1 == fnv1a32(fnv1a32_basis, i)
           h2 == IF h1[1] >= 0 THEN fnv1a32(h1, treeid) ELSE h1
           h3 == IF h2[1] >= 0 THEN fnv1a32(h2, nodeid) ELSE h2
           h4 == IF h3[1] >= 0 THEN fnv1a32(h3, seed[1]) ELSE h3
           h5 == IF h4[1] >= 0 THEN fnv1a32(h4, seed[2]) ELSE h4
       IN h5

\* variant: candidates with the pivot's hash are never counted
CountsBefore_noties(i, k) == WordLess(CandidateHash(i), CandidateHash(k))

\* lines 236-239: candidate i is counted for pivot k
CountsBefore(i, k) ==
  \/ WordLess(CandidateHash(i), CandidateHash(k))
  \/ (CandidateHash(i) = CandidateHash(k) /\ i < k)

\* lines 227-240: cnt of thread t, which visits i = t, t + blockDim.x, ... < N
ThreadCnt(t, k) ==
  Cardinality({i \in 0 .. (N - 1) : i % TPB = t /\ i # k /\ CountsBefore(i, k)})

\* a block enters select(k, ...): thread 0 clears blksum, every thread counts
SelectCall(k) ==
  /\ sel_k = -1
  /\ ncalls[k] < SelMaxCalls
  /\ sel_k' = k
  /\ blksum' = 0
  /\ cnt' = [t \in Threads |-> ThreadCnt(t, k)]
  /\ added' = {}
  /\ ret' = [t \in Threads |-> -1]
  /\ UNCHANGED notSel
  /\ UNCHANGED <<treeid, nodeid, seed, N, colliding, perm, ncalls>>

\* line 242: thread t, past the barrier, adds its count when it is positive
SelectAtomicAdd(t) ==
  /\ sel_k # -1
  /\ t \notin added
  /\ ret[t] = -1
  /\ blksum' = IF cnt[t] > 0 THEN blksum + cnt[t] ELSE blksum
  /\ added' = added \cup {t}
  /\ UNCHANGED notSel
  /\ UNCHANGED <<treeid, nodeid, seed, N, colliding, sel_k, cnt, ret, perm, ncalls>>

\* variant: a thread goes on to its return without waiting for the others
PastBarrier_none(t, arrived) == t \in arrived

\* line 243, __syncthreads(): a thread is past it when all threads have arrived
PastBarrier(t, arrived) == arrived = Threads

\* line 244: thread t, past the second barrier, reads blksum for its return
SelectRead(t) ==
  /\ sel_k # -1
  /\ PastBarrier(t, added)
  /\ ret[t] = -1
  /\ ret' = [ret EXCEPT ![t] = blksum]
  /\ UNCHANGED notSel
  /\ UNCHANGED <<treeid, nodeid, seed, N, colliding, sel_k, cnt, blksum, added, perm,
                 ncalls>>

\* all threads have returned from the call: the value of the call is recorded
SelectReturn ==
  /\ sel_k # -1
  /\ \A t \in Threads : ret[t] # -1
  /\ perm' = [perm EXCEPT ![sel_k] = ret[0]]
  /\ ncalls' = [ncalls EXCEPT ![sel_k] = @ + 1]
  /\ sel_k' = -1
  /\ UNCHANGED notSel
  /\ UNCHANGED <<treeid, nodeid, seed, N, colliding, cnt, blksum, added, ret>>

\* Arguments.  FNV-1a hashes of candidates that differ only in their lowest byte
\* never collide (every round is a bijection of the hash), so two of fewer than
\* 257 candidates have different hashes; the case of colliding candidates is
\* exercised with hashes given for all candidates, drawn from two values.
SelInit ==
  /\ N \in 1 .. SelMaxN
  /\ \/ /\ treeid \in {0, 1}
        /\ nodeid \in {0, 1, 2}
        /\ seed \in {<<0, 0>>, <<0, 1>>, <<1, 0>>}
        /\ colliding = <<>>
     \/ /\ treeid = 0 /\ nodeid = 0 /\ seed = <<0, 0>>
        /\ colliding \in [0 .. (N - 1) -> {Word(0, 1), Word(0, 2)}]
  /\ sel_k = -1
  /\ cnt = [t \in Threads |-> 0]
  /\ blksum = 0
  /\ added = {}
  /\ ret = [t \in Threads |-> -1]
  /\ perm = [k \in 0 .. (N - 1) |-> -1]
  /\ ncalls = [k \in 0 .. (N - 1) |-> 0]
  /\ PartOff /\ SplitOff /\ FilOff /\ LbOff

SelNext ==
  \/ \E k \in 0 .. (N - 1) : SelectCall(k)
  \/ \E t \in Threads : SelectAtomicAdd(t)
  \/ \E t \in Threads : SelectRead(t)
  \/ SelectReturn

SpecSelect == SelInit /\ [][SelNext]_vars

\* C5: for fixed treeid, nodeid, seed and N the values select returns for the
\* k in [0, N) are pairwise different and lie in [0, N-1] (a permutation), also
\* when candidates have equal hashes, and a later call with the same arguments
\* returns the value of the earlier call.
C5_SelectPermutation ==
  /\ [](/\ \A k \in 0 .. (N - 1) : perm[k] \in -1 .. (N - 1)
        /\ \A k1, k2 \in 0 .. (N - 1) :
             (k1 # k2 /\ perm[k1] # -1 /\ perm[k2] # -1) => perm[k1] # perm[k2])
  /\ [][\A k \in 0 .. (N - 1) : perm[k] # -1 => perm'[k] = perm[k]]_vars

\* all N values returned, twice each, for real hashes in an order that is not
\* the identity
C5_Witness ==
  /\ N = SelMaxN
  /\ colliding = <<>>
  /\ \A k \in 0 .. (N - 1) : ncalls[k] = SelMaxCalls
  /\ {perm[k] : k \in 0 .. (N - 1)} = 0 .. (N - 1)
  /\ \E k \in 0 .. (N - 1) : perm[k] # k

(***************************************************************************)
(* computeSplitKernel: histograms, their reduction over the blocks of a    *)
(* node, the scan to cumulative form and the update of splits[nid]         *)
(***************************************************************************)
\* rows of the training matrix given to computeSplitKernel (input.M)
SplitRows == 3
\* parameter nbins
nbins == 3
\* largest workload_info.num_blocks of the node
MaxBlocks == 2
\* labels; objective.NumClasses() is their number
Classes == {0, 1}
NumClasses == Cardinality(Classes)

RECURSIVE Factorial(_)
Factorial(n) == IF n <= 1 THEN 1 ELSE n * Factorial(n - 1)
\* gains are kept as integers: gain * range_len * GainScale
GainScale == Factorial(SplitRows)
\* std::numeric_limits<DataT>::max() on this scale
DataMax == (SplitRows * GainScale) + 1

\* struct WorkloadInfo
WorkloadInfo(n, l, o, nb) ==
  [nodeid |-> n, large_nodeid |-> l, offset_blockid |-> o, num_blocks |-> nb]

\* variant: the search also passes boundaries equal to d
LowerBoundBody_le(sbins, d, start, end) ==
  LET mid == (start + end) \div 2
  IN IF sbins[mid] <= d THEN <<mid + 1, end>> ELSE <<start, mid>>

\* the body of the loop of lower_bound: <<start, end>> after it
LowerBoundBody(sbins, d, start, end) ==
  LET mid == (start + end) \div 2
  IN IF sbins[mid] < d THEN <<mid + 1, end>> ELSE <<start, mid>>

RECURSIVE LowerBoundLoop(_, _, _, _)
\* while (start < end) of lower_bound
LowerBoundLoop(sbins, d, start, end) ==
  IF start < end
  THEN LET next == LowerBoundBody(sbins, d, start, end)
       IN LowerBoundLoop(sbins, d, next[1], next[2])
  ELSE start

\* HDI IdxT lower_bound(DataT* sbins, IdxT nbins, DataT d)
lower_bound(sbins, nbins_, d) == LowerBoundLoop(sbins, d, 0, nbins_ - 1)

\* the sorted arrays of n bin boundaries
SortedBins(n) ==
  {f \in [0 .. (n - 1) -> 0 .. nbins] : \A i \in 0 .. (n - 2) : f[i] <= f[i + 1]}

\* lower_bound is called: start = 0, end = nbins - 1
LbInit ==
  /\ \E n \in 1 .. (nbins + 1) : \E f \in SortedBins(n) : \E d \in 0 .. (nbins + 1) :
       lb = [pc |-> "loop", sbins |-> f, nbins |-> n, d |-> d,
             start |-> 0, end |-> n - 1, iters |-> 0]
  /\ PartOff /\ SelOff /\ SplitOff /\ FilOff

\* one iteration of while (start < end)
LowerBoundStep ==
  /\ lb # <<>>
  /\ lb.pc = "loop"
  /\ lb.start < lb.end
  /\ LET next == LowerBoundBody(lb.sbins, lb.d, lb.start, lb.end)
     IN lb' = [lb EXCEPT !.start = next[1], !.end = next[2], !.iters = @ + 1]
  /\ UNCHANGED notLb

\* return start
LowerBoundReturn ==
  /\ lb # <<>>
  /\ lb.pc = "loop"
  /\ ~(lb.start < lb.end)
  /\ lb' = [lb EXCEPT !.pc = "returned"]
  /\ UNCHANGED notLb

LbNext == LowerBoundStep \/ LowerBoundReturn

SpecLowerBound == LbInit /\ [][LbNext]_vars

\* sbins[b] = input.quantiles[col * nbins + b]
Sbins(col) == [b \in 0 .. (nbins - 1) |-> input.quantiles[(col * nbins) + b]]

\* shared_histogram[i] = BinT() for i < shared_histogram_len
EmptyHistogram == [i \in 0 .. ((nbins * NumClasses) - 1) |-> 0]

\* BinT::IncrementHistogram(shared_histogram, nbins, start, label): one more
\* sample of class label in bin start; class c occupies [nbins * c, nbins * (c + 1))
IncrementHistogram(shist, nbins_, start, label) ==
  [shist EXCEPT ![(nbins_ * label) + start] = @ + 1]

\* variant: the threads of a block stride over the block alone
Visits_block_stride(work_item, i, offset_blockid, num_blocks) ==
  LET range_start == work_item.instances.begin
  IN {tk \in Threads \X (0 .. SplitRows) :
        i = (range_start + (tk[1] + (offset_blockid * TPB))) + (tk[2] * TPB)}

\* the visits <<threadIdx.x, iteration>> of position i by the loop
\* for (i = range_start + tid; i < end; i += stride) of the block with this
\* offset_blockid: stride = blockDim.x * num_blocks,
\* tid = threadIdx.x + offset_blockid * blockDim.x
Visits(work_item, i, offset_blockid, num_blocks) ==
  LET range_start == work_item.instances.begin
      stride == TPB * num_blocks
  IN {tk \in Threads \X (0 .. SplitRows) :
        i = (range_start + (tk[1] + (offset_blockid * TPB))) + (tk[2] * stride)}

\* does the loop of the block with this offset_blockid visit position i
VisitedBy(work_item, i, offset_blockid, num_blocks) ==
  Visits(work_item, i, offset_blockid, num_blocks) # {}

RECURSIVE IncrementTimes(_, _, _, _, _)
\* IncrementHistogram once for each of n visits of a position
IncrementTimes(shist, nbins_, start, label, n) ==
  IF n <= 0 THEN shist
  ELSE IncrementTimes(IncrementHistogram(shist, nbins_, start, label), nbins_, start,
                      label, n - 1)

RECURSIVE HistogramFrom(_, _, _, _, _, _)
\* the pdf histogram of a block: its visits at positions i .. end - 1 added to shist
HistogramFrom(work_item, shist, i, col, offset_blockid, num_blocks) ==
  LET end == work_item.instances.begin + work_item.instances.count
  IN IF i >= end THEN shist
     ELSE IF VisitedBy(work_item, i, offset_blockid, num_blocks)
          THEN LET row == input.rowids[i]
                   d == input.data[row + (col * input.M)]
                   label == input.labels[row]
                   start == lower_bound(Sbins(col), nbins, d)
                   visits == Visits(work_item, i, offset_blockid, num_blocks)
               IN HistogramFrom(work_item,
                                IncrementTimes(shist, nbins, start, label,
                                               Cardinality(visits)),
                                i + 1, col, offset_blockid, num_blocks)
          ELSE HistogramFrom(work_item, shist, i + 1, col, offset_blockid, num_blocks)

\* raft::ceildiv
ceildiv(a, b) == ((a + b) - 1) \div b

RECURSIVE PdfToCdfLoop(_, _, _, _, _)
\* one iteration of the loop of pdf_to_cdf for the threads tix = base + threadIdx.x
PdfToCdfLoop(shist, off, nbins_, base, total_aggregate) ==
  IF base >= ceildiv(nbins_, TPB) * TPB
  THEN [shared_histogram |-> shist, total_sum |-> total_aggregate]
  ELSE LET element == [t \in Threads |->
                         IF base + t < nbins_ THEN shist[(off + base) + t] ELSE 0]
           result == [t \in Threads |-> SumTo(element, t + 1)]
           block_aggregate == SumTo(element, TPB)
           scanned == [i \in DOMAIN shist |->
                         IF /\ (i - off) - base \in Threads
                            /\ i - off < nbins_
                         THEN result[(i - off) - base] + total_aggregate
                         ELSE shist[i]]
       IN PdfToCdfLoop(scanned, off, nbins_, base + TPB,
                       total_aggregate + block_aggregate)

\* variant: every batch of TPB bins is scanned by itself, without the aggregate
\* of the batches before it
pdf_to_cdf_no_carry(shist, offset_pdf, nbins_) ==
  [shared_histogram |->
     [i \in DOMAIN shist |->
        IF (i - offset_pdf) \in 0 .. (nbins_ - 1)
        THEN LET first == offset_pdf + (((i - offset_pdf) \div TPB) * TPB)
             IN SumTo([j \in 0 .. (i - first) |-> shist[first + j]], (i - first) + 1)
        ELSE shist[i]],
   total_sum |-> SumTo([j \in 0 .. (nbins_ - 1) |-> shist[offset_pdf + j]], nbins_)]

\* DI BinT pdf_to_cdf(BinT* shared_histogram, IdxT nbins), called on
\* shared_histogram + offset_pdf
pdf_to_cdf(shist, offset_pdf, nbins_) == PdfToCdfLoop(shist, offset_pdf, nbins_, 0, 0)

RECURSIVE PdfToCdfClasses(_, _)
\* for (c = 0; c < objective.NumClasses(); ++c) pdf_to_cdf(...)
PdfToCdfClasses(shist, c) ==
  IF c >= NumClasses THEN shist
  ELSE PdfToCdfClasses(pdf_to_cdf(shist, nbins * c, nbins).shared_histogram, c + 1)

\* a Split before any candidate was proposed to it
Split_init == Split(-DataMax, -1, -DataMax, 0)

\* scan order of the candidates of a node: by column, then by threshold
ScanBefore(a, b) ==
  \/ a.colid < b.colid
  \/ a.colid = b.colid /\ a.quesval < b.quesval

\* variant: a candidate is taken only when its gain is larger
update_larger(cur, other) ==
  IF other.best_metric_val > cur.best_metric_val THEN other ELSE cur

\* Split::update: the record keeps the candidate of larger gain and, under equal
\* gain, the one that comes first in scan order
update(cur, other) ==
  IF other.best_metric_val > cur.best_metric_val THEN other
  ELSE IF other.best_metric_val = cur.best_metric_val /\ ScanBefore(other, cur)
       THEN other
       ELSE cur

\* sum over the classes of f[c]
ClassSum(f) == SumTo(f, NumClasses)

\* the gain of splitting len samples with per-class counts total into the
\* per-class counts left and the rest (Gini impurity decrease, scaled by
\* len * GainScale)
GainPerSplit(left, total, len) ==
  LET nLeft == ClassSum(left)
      nRight == len - nLeft
      sq(f) == ClassSum([c \in 0 .. (NumClasses - 1) |-> f[c] * f[c]])
      right == [c \in 0 .. (NumClasses - 1) |-> total[c] - left[c]]
  IN (((GainScale \div nLeft) * sq(left)) + ((GainScale \div nRight) * sq(right)))
       - ((GainScale \div len) * sq(total))

RECURSIVE GainFrom(_, _, _, _, _, _)
\* the candidates of bins i .. nbins - 1 of one column proposed to sp; a bin
\* that leaves one side without samples separates nothing and is not proposed
GainFrom(sp, i, shist, sbins, col, len) ==
  IF i >= nbins THEN sp
  ELSE LET left == [c \in 0 .. (NumClasses - 1) |-> shist[(nbins * c) + i]]
           total == [c \in 0 .. (NumClasses - 1) |-> shist[(nbins * c) + (nbins - 1)]]
           nLeft == ClassSum(left)
       IN IF nLeft <= 0 \/ len - nLeft <= 0
          THEN GainFrom(sp, i + 1, shist, sbins, col, len)
          ELSE GainFrom(update(sp, Split(sbins[i], col,
                                         GainPerSplit(left, total, len), nLeft)),
                        i + 1, shist, sbins, col, len)

\* objective.Gain(shared_histogram, sbins, col, range_len, nbins)
Gain(shist, sbins, col, len, nbins_) == GainFrom(Split_init, 0, shist, sbins, col, len)

\* MLCommon::signalDone: the arrival of one block at the counter of its column;
\* last for the block that completes num_blocks arrivals
signalDone(count, num_blocks) ==
  [done_count |-> count + 1, last |-> (count + 1 = num_blocks)]

\* variant: every block goes on behind the done counter
Returns_never(last) == FALSE

\* if (!last) return;
Returns(last) == ~last

\* the blocks of the launch: <<blockIdx.x, blockIdx.y>>
Grid == DOMAIN blk

\* col = colStart + blockIdx.y (input.nSampledCols == input.N, colStart = 0)
ColOf(b) == b[2]

\* nodes that the buffers of a level have room for
MaxNodes == 2

\* gridDim.y: one block row per sampled column
gridDim_y == Cardinality(Cols)

\* nid = workload_info_cta.nodeid
NidOf(b) == workload_info[b[1]].nodeid

\* shared_histogram_len = nbins * objective.NumClasses()
shared_histogram_len == nbins * NumClasses

\* variant: the slices of the columns of a node lie one cell apart
histOffset_unscaled(b) == (workload_info[b[1]].large_nodeid * gridDim_y) + b[2]

\* histOffset = ((large_nid * gridDim.y) + blockIdx.y) * shared_histogram_len
histOffset(b) ==
  ((workload_info[b[1]].large_nodeid * gridDim_y) + b[2]) * shared_histogram_len

\* for (i < shared_histogram_len) BinT::AtomicAdd(hist + histOffset + i, shared_histogram[i])
AtomicAdd(buf, offset, shist) ==
  [i \in DOMAIN buf |->
     IF (i - offset) \in DOMAIN shist THEN buf[i] + shist[i - offset] ELSE buf[i]]

\* for (i < shared_histogram_len) shared_histogram[i] = hist[histOffset + i]
LoadHistogram(buf, offset) ==
  [i \in 0 .. (shared_histogram_len - 1) |-> buf[offset + i]]

\* variant: every block reduces through global memory
UsesGlobal_always(num_blocks) == TRUE

\* if (num_blocks > 1)
UsesGlobal(num_blocks) == num_blocks > 1

\* done_count + nid * gridDim.y + blockIdx.y
DoneIndex(b) == (NidOf(b) * gridDim_y) + b[2]

\* variant: one mutex per column
MutexOf_column(b) == b[2]

\* mutex + nid
MutexOf(b) == NidOf(b)

\* variant: every block writes the first record
SplitOf_first(b) == 0

\* splits + nid
SplitOf(b) == NidOf(b)

\* histogram of the block in shared memory; with num_blocks > 1 its AtomicAdd
\* into the global histogram of the column
ComputeHistogram(b) ==
  LET info == workload_info[b[1]]
      work_item == node_item[NidOf(b)]
      shist == HistogramFrom(work_item, EmptyHistogram, work_item.instances.begin,
                             ColOf(b), info.offset_blockid, info.num_blocks)
  IN /\ blk[b].pc = "start"
     /\ IF UsesGlobal(info.num_blocks)
        THEN /\ hist' = AtomicAdd(hist, histOffset(b), shist)
             /\ blk' = [blk EXCEPT ![b] = [@ EXCEPT !.pc = "signal",
                                                    !.shared_histogram = shist]]
        ELSE /\ blk' = [blk EXCEPT ![b] = [@ EXCEPT !.pc = "scan",
                                                    !.shared_histogram = shist]]
             /\ UNCHANGED hist
     /\ UNCHANGED notSplit
     /\ UNCHANGED <<input, node_item, workload_info, done_count, mutex, node_split,
                    updates>>

\* signalDone; a block that is not the last returns, the last one loads the
\* global histogram of its column into shared memory
SignalDone(b) ==
  LET info == workload_info[b[1]]
      sig == signalDone(done_count[DoneIndex(b)], info.num_blocks)
  IN /\ blk[b].pc = "signal"
     /\ done_count' = [done_count EXCEPT ![DoneIndex(b)] = sig.done_count]
     /\ IF Returns(sig.last)
        THEN blk' = [blk EXCEPT ![b] = [@ EXCEPT !.pc = "exit"]]
        ELSE blk' = [blk EXCEPT ![b] = [@ EXCEPT !.pc = "scan",
                                                 !.shared_histogram =
                                                   LoadHistogram(hist, histOffset(b))]]
     /\ UNCHANGED notSplit
     /\ UNCHANGED <<input, node_item, workload_info, hist, mutex, node_split, updates>>

\* pdf to cdf for every class, then the best candidate of the column
ScanAndGain(b) ==
  LET cdf == PdfToCdfClasses(blk[b].shared_histogram, 0)
      sp == Gain(cdf, Sbins(ColOf(b)), ColOf(b), node_item[NidOf(b)].instances.count,
                 nbins)
  IN /\ blk[b].pc = "scan"
     /\ blk' = [blk EXCEPT ![b] = [@ EXCEPT !.pc = "lock",
                                            !.shared_histogram = cdf, !.sp = sp]]
     /\ UNCHANGED notSplit
     /\ UNCHANGED <<input, node_item, workload_info, hist, done_count, mutex,
                    node_split, updates>>

\* variant: the mutex stays taken
release_never(m, i) == m

\* the release of the spin-mutex at the end of the critical section
release(m, i) == [m EXCEPT ![i] = 0]

\* sp.evalBestSplit(smem, splits + nid, mutex + nid): the mutex of the node is taken
Lock(b) ==
  /\ blk[b].pc = "lock"
  /\ mutex[MutexOf(b)] = 0
  /\ mutex' = [mutex EXCEPT ![MutexOf(b)] = 1]
  /\ blk' = [blk EXCEPT ![b] = [@ EXCEPT !.pc = "compare"]]
  /\ UNCHANGED notSplit
  /\ UNCHANGED <<input, node_item, workload_info, hist, done_count, node_split, updates>>

\* ... the best-so-far record of the node is read for the comparison
CompareSplit(b) ==
  /\ blk[b].pc = "compare"
  /\ blk' = [blk EXCEPT ![b] = [@ EXCEPT !.pc = "update", !.cur = node_split[SplitOf(b)]]]
  /\ UNCHANGED notSplit
  /\ UNCHANGED <<input, node_item, workload_info, hist, done_count, mutex, node_split,
                 updates>>

\* ... splits[nid] is written with the better of the two and the mutex released
EvalBestSplit(b) ==
  /\ blk[b].pc = "update"
  /\ node_split' = [node_split EXCEPT ![SplitOf(b)] = update(blk[b].cur, blk[b].sp)]
  /\ mutex' = release(mutex, MutexOf(b))
  /\ updates' = Append(updates, b)
  /\ blk' = [blk EXCEPT ![b] = [@ EXCEPT !.pc = "done"]]
  /\ UNCHANGED notSplit
  /\ UNCHANGED <<input, node_item, workload_info, hist, done_count>>

\* Inputs: column 0 puts row r into bin r % nbins; column 1 mirrors it, repeats
\* it, is constant or tells the first bin from the others.  Quantiles lie
\* between the data values.
SplitCol0 == [r \in 0 .. (SplitRows - 1) |-> 2 * (r % nbins)]

\* input.data, column major, with this column 1
SplitDataOf(col1) ==
  [i \in 0 .. ((2 * SplitRows) - 1) |->
     IF i < SplitRows THEN SplitCol0[i] ELSE col1[i - SplitRows]]

\* column 1 mirrors column 0
MirrorData ==
  SplitDataOf([r \in 0 .. (SplitRows - 1) |-> (2 * (nbins - 1)) - SplitCol0[r]])

SplitData ==
  {MirrorData,
   SplitDataOf(SplitCol0),
   SplitDataOf([r \in 0 .. (SplitRows - 1) |-> 0]),
   SplitDataOf([r \in 0 .. (SplitRows - 1) |-> IF SplitCol0[r] = 0 THEN 0 ELSE 2])}

SplitRanges ==
  {InstanceRange(0, 0), InstanceRange(0, SplitRows), InstanceRange(1, SplitRows - 1)}

\* the levels given to the kernel: one node of any range on 1 .. MaxBlocks
\* blocks, or two nodes that share the rows, on one block each
SplitLevels ==
  {[node_item |-> [nid \in {0} |-> NodeWorkItem(1, 0, r)],
    workload_info |-> [x \in 0 .. (nb - 1) |->
                         WorkloadInfo(0, IF nb > 1 THEN 0 ELSE -1, x, nb)]] :
     r \in SplitRanges, nb \in 1 .. MaxBlocks}
  \cup
  {[node_item |-> [nid \in {0, 1} |->
                    NodeWorkItem(1 + nid, 1,
                                 IF nid = 0 THEN InstanceRange(0, SplitRows \div 2)
                                 ELSE InstanceRange(SplitRows \div 2,
                                                    SplitRows - (SplitRows \div 2)))],
    workload_info |-> [x \in {0, 1} |-> WorkloadInfo(x, -1, 0, 1)]]}

\* the two nodes of a level that share the rows, the first on two blocks
SharedItems ==
  [nid \in {0, 1} |->
     NodeWorkItem(1 + nid, 1,
                  IF nid = 0 THEN InstanceRange(0, SplitRows - 1)
                  ELSE InstanceRange(SplitRows - 1, 1))]

\* a level with a node of one row on two blocks next to a node with the other
\* rows on one block (large_nodeid counts the nodes on several blocks)
SplitMixedLevels ==
  {[node_item |-> [nid \in {0, 1} |->
                     NodeWorkItem(1 + nid, 1,
                                  IF nid = 0 THEN InstanceRange(0, 1)
                                  ELSE InstanceRange(1, SplitRows - 1))],
    workload_info |-> [x \in 0 .. 2 |->
                         IF x < 2 THEN WorkloadInfo(0, 0, x, 2)
                         ELSE WorkloadInfo(1, -1, 0, 1)]]}

\* a level with two nodes on two blocks each
SplitLargeLevels ==
  {[node_item |-> SharedItems,
    workload_info |-> [x \in 0 .. 3 |-> WorkloadInfo(x \div 2, x \div 2, x % 2, 2)]]}

\* the labels alternate over the rows
AlternatingLabels == [r \in 0 .. (SplitRows - 1) |-> r % 2]

\* the state at the launch of the kernel on level lv with data d and labels l
LaunchOf(d, l, lv) ==
  /\ input = [data |-> d,
              labels |-> l,
              rowids |-> [i \in 0 .. (SplitRows - 1) |-> i],
              quantiles |-> [i \in 0 .. ((2 * nbins) - 1) |-> (2 * (i % nbins)) + 1],
              M |-> SplitRows,
              N |-> 2,
              nSampledCols |-> 2]
  /\ node_item = lv.node_item
  /\ workload_info = lv.workload_info
  /\ hist = [i \in 0 .. (((MaxNodes * gridDim_y) * shared_histogram_len) - 1) |-> 0]
  /\ done_count = [i \in 0 .. ((MaxNodes * gridDim_y) - 1) |-> 0]
  /\ mutex = [nid \in 0 .. (MaxNodes - 1) |-> 0]
  /\ node_split = [nid \in 0 .. (MaxNodes - 1) |-> Split_init]
  /\ blk = [b \in (DOMAIN lv.workload_info) \X Cols |->
              [pc |-> "start", shared_histogram |-> EmptyHistogram, sp |-> Split_init,
               cur |-> Split_init]]
  /\ updates = <<>>
  /\ PartOff /\ SelOff /\ FilOff /\ LbOff

ComputeInit ==
  \E d \in SplitData : \E l \in [0 .. (SplitRows - 1) -> Classes] :
    \E lv \in SplitLevels \cup SplitMixedLevels :
      /\ lv \in SplitMixedLevels => (d = MirrorData /\ l = AlternatingLabels)
      /\ LaunchOf(d, l, lv)

\* the launches on a level with two nodes on two blocks each
LargeInit ==
  \E lv \in SplitLargeLevels : LaunchOf(MirrorData, AlternatingLabels, lv)

ComputeNext ==
  \/ \E b \in Grid : ComputeHistogram(b)
  \/ \E b \in Grid : SignalDone(b)
  \/ \E b \in Grid : ScanAndGain(b)
  \/ \E b \in Grid : Lock(b)
  \/ \E b \in Grid : CompareSplit(b)
  \/ \E b \in Grid : EvalBestSplit(b)

SpecSplit == ComputeInit /\ [][ComputeNext]_vars

SpecSplitLarge == LargeInit /\ [][ComputeNext]_vars

\* most blocks along x of a fair launch: MaxBlocks of one node, or one of each node
MaxGrid == IF MaxBlocks > MaxNodes THEN MaxBlocks ELSE MaxNodes

\* the steps of one block of the launch
BlockStep(b) ==
  /\ b \in Grid
  /\ \/ ComputeHistogram(b)
     \/ SignalDone(b)
     \/ ScanAndGain(b)
     \/ Lock(b)
     \/ CompareSplit(b)
     \/ EvalBestSplit(b)

\* fair scheduling of the blocks: a block that can take a step, and stays able
\* to, takes it (a block that spins on a mutex that stays free acquires it)
SplitFairness ==
  \A x \in 0 .. (MaxGrid - 1) : \A y \in Cols : WF_vars(BlockStep(<<x, y>>))

\* the launches of the fair runs: all data sets and the levels of one node on
\* 1 .. MaxBlocks blocks or of two nodes on one block each, with the labels
\* alternating over the rows (the steps that a block can take do not depend on
\* the labels)
FairInit ==
  \E d \in SplitData : \E lv \in SplitLevels : LaunchOf(d, AlternatingLabels, lv)

SpecSplitFair == FairInit /\ [][ComputeNext]_vars /\ SplitFairness

\* every block of the launch has returned
KernelDone == Grid # {} /\ \A b \in Grid : blk[b].pc \in {"exit", "done"}

\* the nodes of the launch
Nids == DOMAIN node_item

\* positions of the range of node nid
NodePositions(nid) ==
  node_item[nid].instances.begin ..
    ((node_item[nid].instances.begin + node_item[nid].instances.count) - 1)

\* samples of class c in node nid with a value of column col of at most q
CountAtMost(nid, col, q, c) ==
  Cardinality({i \in NodePositions(nid) :
                 /\ input.data[input.rowids[i] + (col * input.M)] <= q
                 /\ input.labels[input.rowids[i]] = c})

\* the candidates (column, quantile) of node nid that leave no side empty
Candidates(nid) ==
  LET len == node_item[nid].instances.count
      left(col, q) == [c \in 0 .. (NumClasses - 1) |-> CountAtMost(nid, col, q, c)]
      total == [c \in 0 .. (NumClasses - 1) |->
                  Cardinality({i \in NodePositions(nid) :
                                 input.labels[input.rowids[i]] = c})]
  IN {Split(Sbins(col)[b], col, GainPerSplit(left(col, Sbins(col)[b]), total, len),
            ClassSum(left(col, Sbins(col)[b]))) :
        <<col, b>> \in {cb \in Cols \X (0 .. (nbins - 1)) :
                          /\ ClassSum(left(cb[1], Sbins(cb[1])[cb[2]])) > 0
                          /\ ClassSum(left(cb[1], Sbins(cb[1])[cb[2]])) < len}}

\* the candidate of largest gain that is first in scan order, if there is one
FirstBest(nid) ==
  IF Candidates(nid) = {} THEN Split_init
  ELSE CHOOSE s \in Candidates(nid) :
         \A o \in Candidates(nid) :
           \/ o = s
           \/ o.best_metric_val < s.best_metric_val
           \/ o.best_metric_val = s.best_metric_val /\ ScanBefore(s, o)

C7_EmptyNodeRejected ==
  \A nid \in Nids :
    (KernelDone /\ node_item[nid].instances.count = 0) =>
      /\ node_split[nid] = Split_init
      /\ \A mid \in (-DataMax) .. DataMax : \A msl \in 0 .. SplitRows :
           SplitNotValid(node_split[nid], mid, msl, node_item[nid].instances.count)

\* an empty node whose histogram went through the reduction over several blocks
C7_Witness ==
  /\ KernelDone
  /\ Nids = {0}
  /\ node_item[0].instances.count = 0
  /\ Cardinality(DOMAIN workload_info) > 1
  /\ Len(updates) = Cardinality(Cols)

(***************************************************************************)
(* Forest inference tests: the dense forest of a test, its sparse and      *)
(* treelite forms, and the predictions on them                             *)
(***************************************************************************)
\* ps.depth of the prediction and import tests
FilDepth == 2
\* ps.num_trees
FilTrees == 2
\* ps.num_cols of the prediction and import tests
FilCols == 2

\* floats are integers that count halves: 3 is 1.5, and static_cast<int> of a
\* float that is not negative is the division by FloatScale
FloatScale == 2
\* std::numeric_limits<float>::quiet_NaN(), +INFINITY and -INFINITY stand apart
NaN == 1000
PosInf == 999
NegInf == -999
isnan(x) == x = NaN
\* values of a feature that is not categorical: around the thresholds, or NaN
FilVals == {-1, 0, 1, 2, NaN}
\* values of a categorical feature of num_cats categories after
\* replace_some_floating_with_categorical: -INFINITY, a negative value, a
\* fraction of category 0, a fraction of the last category, the first value
\* past the last category, +INFINITY, or NaN
CatVals(num_cats) ==
  {NegInf, -1, 1, (FloatScale * num_cats) - 1, FloatScale * num_cats, PosInf, NaN}

\* element i of a std::vector kept as a sequence
At(v, i) == v[i + 1]
SetAt(v, i, x) == [v EXCEPT ![i + 1] = x]

\* bits of a byte of cat_sets_h.bits
BITS_PER_BYTE == 8

\* 1.0f: a float that is an output counts parts of it, as many as make every
\* average of outputs over the trees whole
FilOne == Factorial(FilTrees + 1)

\* int tree_num_nodes()
tree_num_nodes(p) == (2 ^ (p.depth + 1)) - 1
\* int forest_num_nodes()
forest_num_nodes(p) == tree_num_nodes(p) * p.num_trees

\* fil::dense_node(w, split, fid, def_left, is_leaf, is_categorical)
dense_node(w, split, fid, def_left, is_leaf, is_categorical) ==
  [output |-> w, split |-> split, fid |-> fid, def_left |-> def_left,
   is_leaf |-> is_leaf, is_categorical |-> is_categorical]

\* capacity of the bit fields of fil::sparse_node8: feature ids and left-child
\* offsets; on the scale of the model the forests of the prediction tests fit
Sparse8Fids == FilCols
Sparse8Nodes == 2 ^ (FilDepth + 1)

\* fil_node_t(output, split, fid, def_left, is_leaf, is_categorical, left_index)
\* for fil::sparse_node16
sparse_node16(w, split, fid, def_left, is_leaf, is_categorical, left_index) ==
  [output |-> w, split |-> split, fid |-> fid, def_left |-> def_left,
   is_leaf |-> is_leaf, is_categorical |-> is_categorical, left_index |-> left_index]

\* ... for fil::sparse_node8: fid and left_index are stored in their bit fields
sparse_node8(w, split, fid, def_left, is_leaf, is_categorical, left_index) ==
  [output |-> w, split |-> split, fid |-> fid % Sparse8Fids, def_left |-> def_left,
   is_leaf |-> is_leaf, is_categorical |-> is_categorical,
   left_index |-> left_index % Sparse8Nodes]

\* the node type of a test class
fil_node_t(test, w, split, fid, def_left, is_leaf, is_categorical, left_index) ==
  IF test \in {"sparse8", "treelite_sparse8"}
  THEN sparse_node8(w, split, fid, def_left, is_leaf, is_categorical, left_index)
  ELSE sparse_node16(w, split, fid, def_left, is_leaf, is_categorical, left_index)

\* fil_node_t()
fil_node_default(test) == fil_node_t(test, 0, 0, 0, FALSE, FALSE, FALSE, 0)

\* generate_forest: feature_categorical[fid]; of the features of a test with
\* feature_categorical_prob 50 the even ones are categorical
feature_categorical(p, fid) ==
  \/ p.feature_categorical_prob = 100
  \/ (p.feature_categorical_prob = 50 /\ fid % 2 = 0)

\* generate_forest: cat_sets_h.fid_num_cats; the bits of a node on feature 0
\* take two bytes, those of a node on another categorical feature one
fid_num_cats_h(p) ==
  [fid \in 0 .. (p.num_cols - 1) |->
     IF feature_categorical(p, fid)
     THEN (IF fid = 0 THEN BITS_PER_BYTE + 1 ELSE 2)
     ELSE 0]

\* cat_sets.sizeof_mask(fid): bytes of the bits of one node on feature fid
sizeof_mask(fid_num_cats, fid) == ceildiv(fid_num_cats[fid], BITS_PER_BYTE)

\* hard_clipped_bernoulli(r, bits_precursor_d, ..., 1 - cat_match_prob): all ones
\* for cat_match_prob 100, all zeros for 0, else a pattern that differs from
\* byte to byte
bits_precursor(p, dl, size) ==
  [n \in 0 .. ((size * BITS_PER_BYTE) - 1) |->
     IF p.cat_match_prob = 100 THEN 1
     ELSE IF p.cat_match_prob = 0 THEN 0
     ELSE (IF (n + dl) % 3 = 0 THEN 1 ELSE 0)]

\* floats_to_bit_stream_k: byte idx of dst, float i of the byte is its bit i
floats_to_bit_stream_k(src, idx) ==
  SumTo([i \in 0 .. (BITS_PER_BYTE - 1) |-> src[(idx * BITS_PER_BYTE) + i] * (2 ^ i)],
        BITS_PER_BYTE)

\* variant: the marking starts one node late, leaf_start = ... + num_tree_nodes / 2 + 1
mark_leaves_late(p, i) == (i % tree_num_nodes(p)) > tree_num_nodes(p) \div 2

\* generate_forest, "mark leaves": is node i of the forest in the last level of
\* its tree, from leaf_start = num_tree_nodes * tree + num_tree_nodes / 2 on
mark_leaves(p, i) == (i % tree_num_nodes(p)) >= tree_num_nodes(p) \div 2

\* generate_forest: nodes and cat_sets_h.  The inner positions of tree 0 in
\* leaves are leaves, those of tree t are the same shifted by t; the last level
\* holds leaves only.  Feature, threshold and default direction vary with the
\* position, and every node has its own output.  A node is categorical when it
\* was drawn so, its feature is categorical and it is no leaf; its split is
\* then the first byte of its bits in cat_sets_h.bits.
generate_forest(p, leaves, dl) ==
  LET n == tree_num_nodes(p)
      ids == 0 .. (forest_num_nodes(p) - 1)
      fids_h == [i \in ids |-> ((i % n) + (i \div n)) % p.num_cols]
      is_leafs_h == [i \in ids |->
                       \/ mark_leaves(p, i)
                       \/ (((i % n) + (i \div n)) % (n \div 2)) \in leaves]
      fid_num_cats == fid_num_cats_h(p)
      is_categoricals_h ==
        [i \in ids |->
           /\ \/ p.node_categorical_prob = 100
              \/ (p.node_categorical_prob = 50 /\ (i % n) % 2 = 0)
           /\ feature_categorical(p, fids_h[i])
           /\ ~is_leafs_h[i]]
      mask_sizes == [i \in ids |->
                       IF is_categoricals_h[i] THEN sizeof_mask(fid_num_cats, fids_h[i])
                       ELSE 0]
      node_cat_set == [i \in ids |-> SumTo(mask_sizes, i)]
      bit_pool_size == SumTo(mask_sizes, forest_num_nodes(p))
      bits_precursor_d == bits_precursor(p, dl, bit_pool_size)
  IN [nodes |->
        [i \in ids |->
           LET t == i \div n
               j == i % n
           IN dense_node((i + 1) * FilOne,
                         IF is_categoricals_h[i] THEN node_cat_set[i] ELSE (j + t) % 2,
                         fids_h[i],
                         (((j + t) + dl) % 2) = 0,
                         is_leafs_h[i],
                         is_categoricals_h[i])],
      cat_sets_h |->
        [bits |-> [idx \in 1 .. bit_pool_size |->
                     floats_to_bit_stream_k(bits_precursor_d, idx - 1)],
         fid_num_cats |-> fid_num_cats]]

\* nan_kernel(data, mask, len, nan): the values whose mask is not set become NaN
nan_kernel(data_d, mask, nan) ==
  [tid \in DOMAIN data_d |-> IF ~mask[tid] THEN nan ELSE data_d[tid]]

\* generate_data: every row over the values of its features, with every mask
\* of nan_kernel
generate_data(p, fid_num_cats) ==
  LET cols == 0 .. (p.num_cols - 1)
      drawn == (FilVals \cup CatVals(BITS_PER_BYTE + 1)) \cup CatVals(2)
      rows == {row \in [cols -> drawn \ {NaN}] :
                 \A fid \in cols :
                   row[fid] \in (IF fid_num_cats[fid] = 0 THEN FilVals
                                 ELSE CatVals(fid_num_cats[fid]))}
  IN {nan_kernel(row, mask, NaN) : row \in rows, mask \in [cols -> BOOLEAN]}

\* static_cast<int>(category) of a category that is not negative
CategoryOf(category) == category \div FloatScale

\* bit (cat % 8) of byte (cat / 8) of the bits that start at byte set
BitOf(bits, set, cat) ==
  (At(bits, set + (cat \div BITS_PER_BYTE)) \div (2 ^ (cat % BITS_PER_BYTE))) % 2

\* cat_sets.category_matches(node, category): a category below 0, at or above
\* fid_num_cats, infinite or NaN matches nothing
category_matches(cat_sets, node, category) ==
  /\ ~isnan(category)
  /\ category >= 0
  /\ category < FloatScale * cat_sets.fid_num_cats[node.fid]
  /\ BitOf(cat_sets.bits, node.split, CategoryOf(category)) = 1

\* tree_base{cat_sets}: what child_index reads besides the node
tree_base(cat_sets) == [cat_sets |-> cat_sets]

\* variant: a value outside the categories of the feature is sent where a NaN
\* value is sent, by def_left
child_cond_default(tree, node, val) ==
  IF isnan(val) THEN (IF node.def_left THEN 0 ELSE 1)
  ELSE IF node.is_categorical
  THEN (IF \/ val < 0
           \/ val >= FloatScale * tree.cat_sets.fid_num_cats[node.fid]
        THEN (IF node.def_left THEN 0 ELSE 1)
        ELSE (IF category_matches(tree.cat_sets, node, val) THEN 1 ELSE 0))
  ELSE (IF val >= node.split THEN 1 ELSE 0)

\* tree_base::child_index: a NaN value follows def_left; any other value goes
\* right when it matches the categories of a categorical node, or is not below
\* the threshold of a numerical node, and left otherwise; cond is 1 for the
\* right child
child_cond(tree, node, val) ==
  IF isnan(val) THEN (IF node.def_left THEN 0 ELSE 1)
  ELSE IF node.is_categorical
  THEN (IF category_matches(tree.cat_sets, node, val) THEN 1 ELSE 0)
  ELSE (IF val >= node.split THEN 1 ELSE 0)

\* ... for a dense node: children of curr at 2 * curr + 1 and 2 * curr + 2
child_index_dense(tree, node, curr, val) == ((2 * curr) + 1) + child_cond(tree, node, val)

\* ... for a sparse node: left child at its stored offset, right child next to it
child_index_sparse(tree, node, curr, val) == node.left_index + child_cond(tree, node, val)

RECURSIVE InferDenseFrom(_, _, _, _, _)
\* the loop of infer_one_tree from node curr of the tree at root
InferDenseFrom(dense, root, row, tree, curr) ==
  LET node == dense[root + curr]
  IN IF node.is_leaf THEN node.output
     ELSE InferDenseFrom(dense, root, row, tree,
                         child_index_dense(tree, node, curr, row[node.fid]))

\* fil::val_t infer_one_tree(fil::dense_node* root, float* data, const tree_base& tree)
infer_one_tree(dense, root, row, tree) == InferDenseFrom(dense, root, row, tree, 0)

\* float sigmoid(float x), 1 / (1 + exp(-x)): kept as the term sigmoid(x)
sigmoid(x) == [sigmoid |-> x]

\* sigmoid(x) > threshold, for the thresholds 0, 0.5 and 1 and those outside [0, 1]
sigmoid_above(x, threshold) ==
  CASE threshold < 0 -> TRUE
    [] threshold = 0 -> TRUE
    [] 2 * threshold = FilOne -> x > 0
    [] threshold >= FilOne -> FALSE

\* index of std::max_element: the first of the largest elements
max_element(v) ==
  CHOOSE i \in DOMAIN v : /\ \A j \in DOMAIN v : v[j] <= v[i]
                          /\ \A j \in DOMAIN v : j < i => v[j] < v[i]

\* void apply_softmax(float* class_scores): exp(class_scores[i] - max) / sum, kept
\* as the term of the differences to max and of i
apply_softmax(class_scores) ==
  LET max == class_scores[max_element(class_scores)]
  IN [i \in DOMAIN class_scores |->
        [softmax |-> [j \in DOMAIN class_scores |-> class_scores[j] - max], class |-> i]]

\* variant: the bias is added before the division by the number of trees
transform_bias_first(p, f) ==
  LET biased == f + p.global_bias
      avg == IF "AVG" \in p.output
             THEN (IF p.leaf_algo = "GROVE_PER_CLASS"
                   THEN biased \div (p.num_trees \div p.num_classes)
                   ELSE biased \div p.num_trees)
             ELSE biased
      proba == IF "SIGMOID" \in p.output THEN sigmoid(avg) ELSE avg
      above == IF "SIGMOID" \in p.output THEN sigmoid_above(avg, p.threshold)
               ELSE avg > p.threshold
  IN [proba |-> proba,
      output |-> IF "CLASS" \in p.output THEN (IF above THEN FilOne ELSE 0) ELSE proba]

\* void transform(float f, float& proba, float& output)
transform(p, f) ==
  LET avg == IF "AVG" \in p.output
             THEN (IF p.leaf_algo = "GROVE_PER_CLASS"
                   THEN f \div (p.num_trees \div p.num_classes)
                   ELSE f \div p.num_trees)
             ELSE f
      biased == avg + p.global_bias
      proba == IF "SIGMOID" \in p.output THEN sigmoid(biased) ELSE biased
      above == IF "SIGMOID" \in p.output THEN sigmoid_above(biased, p.threshold)
               ELSE biased > p.threshold
  IN [proba |-> proba,
      output |-> IF "CLASS" \in p.output THEN (IF above THEN FilOne ELSE 0) ELSE proba]

\* void complement(float* proba): 1.0f - proba[1]; 1 - sigmoid(x) is sigmoid(-x)
complement(p, proba) ==
  IF "SIGMOID" \in p.output THEN sigmoid(0 - proba.sigmoid) ELSE FilOne - proba

\* variant: every tree adds to the class of its place in a run of
\* num_trees / num_classes trees
class_of_tree_blocks(p, tree) ==
  IF tree \div (p.num_trees \div p.num_classes) < p.num_classes
  THEN tree \div (p.num_trees \div p.num_classes)
  ELSE p.num_classes - 1

\* predict_on_cpu, GROVE_PER_CLASS: the class that tree adds to, tree % ps.num_classes
class_of_tree(p, tree) == tree % p.num_classes

RECURSIVE ClassScoresFrom(_, _, _, _, _, _)
\* predict_on_cpu, GROVE_PER_CLASS: the loop over the trees from tree on
ClassScoresFrom(p, dense, row, base, class_scores, tree) ==
  IF tree >= p.num_trees THEN class_scores
  ELSE ClassScoresFrom(p, dense, row, base,
                       [class_scores EXCEPT ![class_of_tree(p, tree)] =
                          @ + infer_one_tree(dense, tree * tree_num_nodes(p), row, base)],
                       tree + 1)

\* predict_on_cpu, GROVE_PER_CLASS: class_scores of a row after the loop
ClassScores(p, dense, row, base) ==
  ClassScoresFrom(p, dense, row, base, [c \in 0 .. (p.num_classes - 1) |-> 0], 0)

\* predict_on_cpu for leaf_algo FLOAT_UNARY_BINARY and GROVE_PER_CLASS:
\* want_preds_h, and want_proba_h with its columns of every row
predict_on_cpu(p, dense, rows, base) ==
  IF p.leaf_algo = "FLOAT_UNARY_BINARY"
  THEN LET pred == [row \in rows |->
                      SumTo([j \in 0 .. (p.num_trees - 1) |->
                               infer_one_tree(dense, j * tree_num_nodes(p), row, base)],
                            p.num_trees)]
       IN [want_preds_h |-> [row \in rows |-> transform(p, pred[row]).output],
           want_proba_h |->
             [row \in rows |->
                [c \in {0, 1} |->
                   IF c = 1 THEN transform(p, pred[row]).proba
                   ELSE complement(p, transform(p, pred[row]).proba)]]]
  ELSE LET class_scores == [row \in rows |-> ClassScores(p, dense, row, base)]
           proba == [row \in rows |->
                       [c \in 0 .. (p.num_classes - 1) |->
                          transform(p, class_scores[row][c]).proba]]
       IN [want_preds_h |-> [row \in rows |-> max_element(class_scores[row])],
           want_proba_h |->
             [row \in rows |->
                IF "SOFTMAX" \in p.output THEN apply_softmax(proba[row])
                ELSE proba[row]]]

\* trees of a batch that one group of threads walks in BATCH_TREE_REORG
FilTreeGroups == 2

\* the algorithms of fil::algo_t
FilAlgos == {"NAIVE", "TREE_REORG", "BATCH_TREE_REORG", "ALGO_AUTO"}

\* the algorithm that runs: ALGO_AUTO selects by the storage and the shape of
\* the forest, the batched one for a dense forest of more than one tree
resolve_algo(storage, params) ==
  IF params.algo # "ALGO_AUTO" THEN params.algo
  ELSE IF storage = "dense" /\ params.num_trees > 1 THEN "BATCH_TREE_REORG"
  ELSE IF storage = "dense" THEN "TREE_REORG"
  ELSE "NAIVE"

\* fil::forest_params_t as filled by init_forest
forest_params_t(p) ==
  [algo |-> p.algo, output |-> p.output, threshold |-> p.threshold,
   global_bias |-> p.global_bias, leaf_algo |-> p.leaf_algo,
   num_classes |-> p.num_classes, num_trees |-> p.num_trees]

\* variant: the nodes are reorganised, but read as if they were not
forest_storage_unpitched(f, params) ==
  LET num_trees == Len(f.trees)
      n == Cardinality(DOMAIN f.nodes) \div num_trees
      reorg == f.storage = "dense" /\ resolve_algo(f.storage, params) # "NAIVE"
  IN [storage |-> f.storage,
      nodes |-> IF reorg
                THEN [k \in DOMAIN f.nodes |-> f.nodes[((k % num_trees) * n) + (k \div num_trees)]]
                ELSE f.nodes,
      trees |-> f.trees,
      node_pitch |-> 1,
      cat_sets |-> f.cat_sets,
      params |-> params]

\* the forest as fil::init_dense, fil::init_sparse and fil::from_treelite store
\* it, f holding tree after tree: a dense forest for a tree-reorganised
\* algorithm holds position i of tree t at i * num_trees + t
forest_storage(f, params) ==
  LET num_trees == Len(f.trees)
      n == Cardinality(DOMAIN f.nodes) \div num_trees
      reorg == f.storage = "dense" /\ resolve_algo(f.storage, params) # "NAIVE"
  IN [storage |-> f.storage,
      nodes |-> IF reorg
                THEN [k \in DOMAIN f.nodes |-> f.nodes[((k % num_trees) * n) + (k \div num_trees)]]
                ELSE f.nodes,
      trees |-> IF reorg THEN [t \in 1 .. num_trees |-> t - 1] ELSE f.trees,
      node_pitch |-> IF reorg THEN num_trees ELSE 1,
      cat_sets |-> f.cat_sets,
      params |-> params]

\* dense2sparse_node: the leaf sparse node
SparseLeaf(test, node) ==
  fil_node_t(test, node.output, 0, node.fid, node.def_left, node.is_leaf, FALSE, 0)

\* variant: the index of the left child stored as it is, not relative to the root
SparseInner_absolute(test, node, left_index, i_sparse_root) ==
  fil_node_t(test, 0, node.split, node.fid, node.def_left, node.is_leaf,
             node.is_categorical, left_index)

\* dense2sparse_node: the inner sparse node
SparseInner(test, node, left_index, i_sparse_root) ==
  fil_node_t(test, 0, node.split, node.fid, node.def_left, node.is_leaf,
             node.is_categorical, left_index - i_sparse_root)

D2SCall(dense_root, i_dense, i_sparse_root, i_sparse) ==
  [dense_root |-> dense_root, i_dense |-> i_dense, i_sparse_root |-> i_sparse_root,
   i_sparse |-> i_sparse]

\* predict_on_cpu, then init_forest of the test class begins
PredictOnCpu ==
  /\ fil_pc = "generated"
  /\ want_preds_h' = predict_on_cpu(ps, nodes, data_h, tree_base(cat_sets_h)).want_preds_h
  /\ want_proba_h' = predict_on_cpu(ps, nodes, data_h, tree_base(cat_sets_h)).want_proba_h
  /\ fil_pc' = CASE ps.test = "dense" -> "init_dense"
                 [] ps.test \in {"sparse16", "sparse8"} -> "dense2sparse"
                 [] OTHER -> "to_treelite"
  /\ UNCHANGED notFil
  /\ UNCHANGED predicts
  /\ UNCHANGED <<ps, nodes, cat_sets_h, data_h, sparse_nodes, trees, calls, tl_model, forest,
                 thrown, preds_h, proba_h>>

\* PredictDenseFilTest::init_forest: fil::init_dense on nodes
InitDense ==
  /\ fil_pc = "init_dense"
  /\ forest' = forest_storage(
                  [storage |-> "dense", nodes |-> nodes,
                   trees |-> [t \in 1 .. ps.num_trees |-> (t - 1) * tree_num_nodes(ps)],
                   cat_sets |-> cat_sets_h],
                  forest_params_t(ps))
  /\ fil_pc' = "predict"
  /\ UNCHANGED notFil
  /\ UNCHANGED predicts
  /\ UNCHANGED <<ps, nodes, cat_sets_h, data_h, want_preds_h, want_proba_h, sparse_nodes, trees, calls, tl_model,
                 thrown, preds_h, proba_h>>

\* dense2sparse_tree up to its call of dense2sparse_node, for the next tree
Dense2SparseTree ==
  LET i_sparse_root == Len(sparse_nodes)
  IN /\ fil_pc = "dense2sparse"
     /\ calls = <<>>
     /\ Len(trees) < ps.num_trees
     /\ sparse_nodes' = Append(sparse_nodes, fil_node_default(ps.test))
     /\ calls' = <<D2SCall(Len(trees) * tree_num_nodes(ps), 0, i_sparse_root,
                           i_sparse_root)>>
     /\ UNCHANGED notFil
     /\ UNCHANGED predicts
     /\ UNCHANGED <<ps, nodes, cat_sets_h, data_h, want_preds_h, want_proba_h, trees, tl_model, forest, thrown,
                    preds_h, proba_h, fil_pc>>

\* the innermost pending call of dense2sparse_node up to its recursive calls;
\* when the outermost call returns, dense2sparse_tree pushes the root to trees
Dense2SparseNode ==
  LET c == Head(calls)
      node == nodes[c.dense_root + c.i_dense]
      left_index == Len(sparse_nodes)
      reserved == Append(Append(sparse_nodes, fil_node_default(ps.test)),
                         fil_node_default(ps.test))
  IN /\ fil_pc = "dense2sparse"
     /\ calls # <<>>
     /\ IF node.is_leaf
        THEN /\ sparse_nodes' = SetAt(sparse_nodes, c.i_sparse, SparseLeaf(ps.test, node))
             /\ calls' = Tail(calls)
        ELSE /\ sparse_nodes' = SetAt(reserved, c.i_sparse,
                                      SparseInner(ps.test, node, left_index,
                                                  c.i_sparse_root))
             /\ calls' = <<D2SCall(c.dense_root, (2 * c.i_dense) + 1, c.i_sparse_root,
                                   left_index),
                           D2SCall(c.dense_root, (2 * c.i_dense) + 2, c.i_sparse_root,
                                   left_index + 1)>> \o Tail(calls)
     /\ trees' = IF calls' = <<>> THEN Append(trees, c.i_sparse_root) ELSE trees
     /\ UNCHANGED notFil
     /\ UNCHANGED predicts
     /\ UNCHANGED <<ps, nodes, cat_sets_h, data_h, want_preds_h, want_proba_h, tl_model, forest, thrown, preds_h, proba_h,
                    fil_pc>>

\* BasePredictSparseFilTest::init_forest after dense2sparse: fil::init_sparse
InitSparse ==
  /\ fil_pc = "dense2sparse"
  /\ calls = <<>>
  /\ Len(trees) = ps.num_trees
  /\ forest' = forest_storage(
                  [storage |-> "sparse", nodes |-> sparse_nodes, trees |-> trees,
                   cat_sets |-> cat_sets_h],
                  forest_params_t(ps))
  /\ fil_pc' = "predict"
  /\ UNCHANGED notFil
  /\ UNCHANGED predicts
  /\ UNCHANGED <<ps, nodes, cat_sets_h, data_h, want_preds_h, want_proba_h, sparse_nodes, trees, calls, tl_model,
                 thrown, preds_h, proba_h>>

\* what a read outside the node array, or a walk that does not end, counts as
NoNode == [output |-> 0, split |-> 0, fid |-> 0, def_left |-> FALSE, is_leaf |-> TRUE,
           is_categorical |-> FALSE, left_index |-> 0]

RECURSIVE InferSparseFrom(_, _, _, _, _, _)
\* traversal of a sparse tree from node curr of the tree at root, steps nodes
\* having been visited
InferSparseFrom(sparse, root, row, tree, curr, steps) ==
  LET node == IF (root + curr) + 1 \in DOMAIN sparse /\ steps <= Len(sparse)
              THEN At(sparse, root + curr)
              ELSE NoNode
  IN IF node.is_leaf THEN node.output
     ELSE InferSparseFrom(sparse, root, row, tree,
                          child_index_sparse(tree, node, curr, row[node.fid]), steps + 1)

RECURSIVE InferPitchedFrom(_, _, _, _, _)
\* traversal of tree t (from 1) of a dense forest from position curr, steps
\* nodes having been visited: position i of the tree is node
\* trees[t] + i * node_pitch of the forest
InferPitchedFrom(f, t, row, curr, steps) ==
  LET i == f.trees[t] + (curr * f.node_pitch)
      node == IF i \in DOMAIN f.nodes /\ steps <= Cardinality(DOMAIN f.nodes)
              THEN f.nodes[i]
              ELSE NoNode
  IN IF node.is_leaf THEN node.output
     ELSE InferPitchedFrom(f, t, row,
                           child_index_dense(tree_base(f.cat_sets), node, curr,
                                             row[node.fid]),
                           steps + 1)

\* the output of tree t (from 1) of a forest for a row
InferForest(f, t, row) ==
  IF f.storage = "dense"
  THEN InferPitchedFrom(f, t, row, 0, 0)
  ELSE InferSparseFrom(f.nodes, f.trees[t], row, tree_base(f.cat_sets), 0, 0)

\* the accumulator that tree t (from 1) adds to: its class for GROVE_PER_CLASS
forest_class(f, t) ==
  IF f.params.leaf_algo = "GROVE_PER_CLASS" THEN (t - 1) % f.params.num_classes ELSE 0

\* accumulators of a row, all zero
forest_zero(f) ==
  [c \in 0 .. ((IF f.params.leaf_algo = "GROVE_PER_CLASS" THEN f.params.num_classes ELSE 1)
                 - 1) |-> 0]

RECURSIVE AccumulateTrees(_, _, _, _)
\* the trees of ts, one after the other, each walked for all of rows and added
\* to the accumulators of every row
AccumulateTrees(f, rows, acc, ts) ==
  IF ts = <<>> THEN acc
  ELSE AccumulateTrees(f, rows,
                       [row \in rows |->
                          [acc[row] EXCEPT ![forest_class(f, Head(ts))] =
                             @ + InferForest(f, Head(ts), row)]],
                       Tail(ts))

\* the trees t (from 1) of a forest with (t - 1) % groups = g, in order
TreesOfGroup(f, groups, g) ==
  SelectSeq([t \in 1 .. Len(f.trees) |-> t], LAMBDA t : (t - 1) % groups = g)

\* NAIVE: the thread of a row walks all trees one after the other
accumulate_naive(f, rows) ==
  [row \in rows |->
     AccumulateTrees(f, {row}, [r \in {row} |-> forest_zero(f)],
                     TreesOfGroup(f, 1, 0))[row]]

\* TREE_REORG: the threads walk one tree at a time for all their rows
accumulate_tree_reorg(f, rows) ==
  AccumulateTrees(f, rows, [r \in rows |-> forest_zero(f)], TreesOfGroup(f, 1, 0))

\* BATCH_TREE_REORG: every group of threads walks its trees for all rows, and
\* the sums of the groups are added
accumulate_batch_tree_reorg(f, rows) ==
  LET part == [g \in 0 .. (FilTreeGroups - 1) |->
                 AccumulateTrees(f, rows, [r \in rows |-> forest_zero(f)],
                                 TreesOfGroup(f, FilTreeGroups, g))]
  IN [row \in rows |->
        [c \in DOMAIN forest_zero(f) |->
           SumTo([g \in 0 .. (FilTreeGroups - 1) |-> part[g][row][c]], FilTreeGroups)]]

\* the accumulators of every row by the algorithm of the forest
accumulate(f, rows) ==
  CASE resolve_algo(f.storage, f.params) = "NAIVE" -> accumulate_naive(f, rows)
    [] resolve_algo(f.storage, f.params) = "TREE_REORG" -> accumulate_tree_reorg(f, rows)
    [] resolve_algo(f.storage, f.params) = "BATCH_TREE_REORG" ->
         accumulate_batch_tree_reorg(f, rows)

\* the output transform, step by step in its order: division by the number of
\* trees (of the trees of a class for GROVE_PER_CLASS) when AVG is set
output_avg(params, f) ==
  IF "AVG" \in params.output
  THEN (IF params.leaf_algo = "GROVE_PER_CLASS"
        THEN f \div (params.num_trees \div params.num_classes)
        ELSE f \div params.num_trees)
  ELSE f

\* ... then the global bias is added
output_bias(params, f) == f + params.global_bias

\* ... then sigmoid when SIGMOID is set
output_sigmoid(params, f) == IF "SIGMOID" \in params.output THEN sigmoid(f) ELSE f

\* ... then softmax over the classes when SOFTMAX is set
output_softmax(params, fs) == IF "SOFTMAX" \in params.output THEN apply_softmax(fs) ELSE fs

\* ... then the class by the threshold when CLASS is set; biased is the value
\* that sigmoid was applied to
output_class(params, biased, f) ==
  IF "CLASS" \in params.output
  THEN (IF (IF "SIGMOID" \in params.output THEN sigmoid_above(biased, params.threshold)
            ELSE biased > params.threshold)
        THEN FilOne ELSE 0)
  ELSE f

\* fil::predict(handle, forest, preds, data, num_rows, predict_proba) for
\* leaf_algo FLOAT_UNARY_BINARY and GROVE_PER_CLASS
predict(f, rows, predict_proba) ==
  LET acc == accumulate(f, rows)
      biased == [row \in rows |->
                   [c \in DOMAIN forest_zero(f) |->
                      output_bias(f.params, output_avg(f.params, acc[row][c]))]]
      proba == [row \in rows |->
                  [c \in DOMAIN forest_zero(f) |->
                     output_sigmoid(f.params, biased[row][c])]]
  IN IF f.params.leaf_algo = "FLOAT_UNARY_BINARY"
     THEN (IF predict_proba
           THEN [row \in rows |->
                   [c \in {0, 1} |->
                      IF c = 1 THEN proba[row][0]
                      ELSE complement(f.params, proba[row][0])]]
           ELSE [row \in rows |-> output_class(f.params, biased[row][0], proba[row][0])])
     ELSE (IF predict_proba
           THEN [row \in rows |-> output_softmax(f.params, proba[row])]
           ELSE [row \in rows |-> max_element(acc[row])])

\* calls of fil::predict on one forest
FilMaxPredicts == 3

\* variant: a call for probabilities takes the class flag off the forest
forest_after_predict_proba(f, predict_proba) ==
  IF predict_proba THEN [f EXCEPT !.params.output = @ \ {"CLASS"}] ELSE f

\* the forest after a call of fil::predict: as it was constructed
forest_after_predict(f, predict_proba) == f

\* predict_on_gpu after init_forest: the two calls of fil::predict
PredictOnGpu ==
  /\ fil_pc = "predict"
  /\ preds_h' = predict(forest, data_h, FALSE)
  /\ proba_h' = predict(forest_after_predict(forest, FALSE), data_h, TRUE)
  /\ forest' = forest_after_predict(forest_after_predict(forest, FALSE), TRUE)
  /\ predicts' = <<FALSE, TRUE>>
  /\ fil_pc' = "predicted"
  /\ UNCHANGED notFil
  /\ UNCHANGED <<ps, nodes, cat_sets_h, data_h, want_preds_h, want_proba_h, sparse_nodes,
                 trees, calls, tl_model, thrown>>

\* one more call of fil::predict on the forest, for classes or for probabilities
Predict ==
  /\ fil_pc = "predicted"
  /\ Len(predicts) < FilMaxPredicts
  /\ \E predict_proba \in BOOLEAN :
       /\ preds_h' = IF predict_proba THEN preds_h ELSE predict(forest, data_h, FALSE)
       /\ proba_h' = IF predict_proba THEN predict(forest, data_h, TRUE) ELSE proba_h
       /\ forest' = forest_after_predict(forest, predict_proba)
       /\ predicts' = Append(predicts, predict_proba)
  /\ UNCHANGED notFil
  /\ UNCHANGED <<ps, nodes, cat_sets_h, data_h, want_preds_h, want_proba_h, sparse_nodes,
                 trees, calls, tl_model, thrown, fil_pc>>

\* fil::free(handle, forest)
Free ==
  /\ fil_pc = "predicted"
  /\ forest' = <<>>
  /\ fil_pc' = "freed"
  /\ UNCHANGED notFil
  /\ UNCHANGED <<ps, nodes, cat_sets_h, data_h, want_preds_h, want_proba_h, sparse_nodes,
                 trees, calls, tl_model, thrown, preds_h, proba_h, predicts>>

\* std::nextafterf(x, toward) for toward = -infinity (-1) and +infinity (1)
nextafterf(x, toward) == IF isnan(x) THEN x ELSE x + toward

\* variant: case kGT ends after moving the threshold, without the swap of kGE
adjust_threshold_to_treelite_break(threshold, tl_left, tl_right, default_left, comparison_op) ==
  LET same == [threshold |-> threshold, tl_left |-> tl_left, tl_right |-> tl_right,
               default_left |-> default_left]
      swapped == [threshold |-> threshold, tl_left |-> tl_right, tl_right |-> tl_left,
                  default_left |-> ~default_left]
  IN IF isnan(threshold) THEN swapped
     ELSE CASE comparison_op = "kLT" -> same
            [] comparison_op = "kLE" -> [same EXCEPT !.threshold = nextafterf(threshold, -1)]
            [] comparison_op = "kGT" -> [same EXCEPT !.threshold = nextafterf(threshold, -1)]
            [] comparison_op = "kGE" -> swapped

\* variant: the children are swapped without changing default_left
adjust_threshold_to_treelite_noflip(threshold, tl_left, tl_right, default_left, comparison_op) ==
  LET same == [threshold |-> threshold, tl_left |-> tl_left, tl_right |-> tl_right,
               default_left |-> default_left]
      swapped == [threshold |-> threshold, tl_left |-> tl_right, tl_right |-> tl_left,
                  default_left |-> default_left]
  IN IF isnan(threshold) THEN swapped
     ELSE CASE comparison_op = "kLT" -> same
            [] comparison_op = "kLE" -> [same EXCEPT !.threshold = nextafterf(threshold, -1)]
            [] comparison_op = "kGT" ->
                 [swapped EXCEPT !.threshold = nextafterf(threshold, -1)]
            [] comparison_op = "kGE" -> swapped

\* void adjust_threshold_to_treelite(pthreshold, tl_left, tl_right, default_left,
\*                                   comparison_op)
adjust_threshold_to_treelite(threshold, tl_left, tl_right, default_left, comparison_op) ==
  LET same == [threshold |-> threshold, tl_left |-> tl_left, tl_right |-> tl_right,
               default_left |-> default_left]
      swapped == [threshold |-> threshold, tl_left |-> tl_right, tl_right |-> tl_left,
                  default_left |-> ~default_left]
  IN IF isnan(threshold) THEN swapped
     ELSE CASE comparison_op = "kLT" -> same
            [] comparison_op = "kLE" -> [same EXCEPT !.threshold = nextafterf(threshold, -1)]
            [] comparison_op = "kGT" ->
                 [swapped EXCEPT !.threshold = nextafterf(threshold, -1)]
            [] comparison_op = "kGE" -> swapped

\* builder->SetLeafNode(key, output)
TlLeaf(output) == [is_leaf |-> TRUE, output |-> output]

\* builder->SetNumericalTestNode(key, fid, op, threshold, default_left, left, right)
TlNumericalTest(fid, op, threshold, default_left, left_key, right_key) ==
  [is_leaf |-> FALSE, fid |-> fid, op |-> op, threshold |-> threshold,
   default_left |-> default_left, left |-> left_key, right |-> right_key]

\* builder->SetCategoricalTestNode(key, fid, left_categories, default_left, left,
\* right): the listed categories go to the left child
TlCategoricalTest(fid, cats, default_left, left_key, right_key) ==
  [is_leaf |-> FALSE, fid |-> fid, op |-> "categorical", threshold |-> NaN,
   default_left |-> default_left, left |-> left_key, right |-> right_key,
   left_categories |-> cats]

\* variant: the byte of the first categories is not replaced at category 8
left_categories_firstbyte(cat_sets, node) ==
  IF node.is_categorical
  THEN {category \in 0 .. (cat_sets.fid_num_cats[node.fid] - 1) :
          BitOf(cat_sets.bits, node.split, category % BITS_PER_BYTE) = 1}
  ELSE {}

\* node_to_treelite: left_categories, the categories below fid_num_cats whose bit
\* is set in the bits of the node
left_categories(cat_sets, node) ==
  IF node.is_categorical
  THEN {category \in 0 .. (cat_sets.fid_num_cats[node.fid] - 1) :
          BitOf(cat_sets.bits, node.split, category) = 1}
  ELSE {}

RECURSIVE node_to_treelite(_, _, _, _)
\* int node_to_treelite(builder, pkey, root, node): the builder with the subtree
\* of node added, the key counter and the key of node
node_to_treelite(builder, pkey, root, node) ==
  LET key == pkey
      dense == nodes[node]
  IN IF dense.is_leaf
     THEN [builder |-> (key :> TlLeaf(dense.output)) @@ builder, pkey |-> pkey + 1,
           key |-> key]
     ELSE LET left == (root + (2 * (node - root))) + 1
              right == (root + (2 * (node - root))) + 2
              l == node_to_treelite(builder, pkey + 1, root, left)
              r == node_to_treelite(l.builder, l.pkey, root, right)
              threshold == IF dense.is_categorical THEN NaN ELSE dense.split
              cats == left_categories(cat_sets_h, dense)
              adj == adjust_threshold_to_treelite(threshold, l.key, r.key,
                                                  dense.def_left, ps.op)
          IN [builder |->
                (key :> (IF cats # {} /\ dense.is_categorical
                         THEN TlCategoricalTest(dense.fid, cats, ~dense.def_left,
                                                r.key, l.key)
                         ELSE TlNumericalTest(dense.fid, ps.op, adj.threshold,
                                              adj.default_left, adj.tl_left,
                                              adj.tl_right))) @@ r.builder,
              pkey |-> r.pkey,
              key |-> key]

\* init_forest_impl: "build the trees", one tree
BuildTree ==
  LET i_tree == Len(tl_model)
      root == i_tree * tree_num_nodes(ps)
      built == node_to_treelite(<<>>, 0, root, root)
  IN /\ fil_pc = "to_treelite"
     /\ i_tree < ps.num_trees
     /\ tl_model' = Append(tl_model, [root_key |-> built.key, nodes |-> built.builder])
     /\ UNCHANGED notFil
     /\ UNCHANGED predicts
     /\ UNCHANGED <<ps, nodes, cat_sets_h, data_h, want_preds_h, want_proba_h, sparse_nodes, trees, calls, forest,
                    thrown, preds_h, proba_h, fil_pc>>

\* the importer's normalisation of a test to "right when the value matches the
\* categories" or "left when val < thresh".  A categorical test, and a
\* numerical test with a NaN threshold (a categorical test without categories),
\* have the children swapped and default_left flipped; "<=" and ">" move the
\* threshold to the next float above, so that the test is exactly the same;
\* ">" and ">=" swap the children and flip default_left
tl2fil_adjust(tl) ==
  LET same == [thresh |-> tl.threshold, def_left |-> tl.default_left,
               left |-> tl.left, right |-> tl.right]
      swapped == [thresh |-> tl.threshold, def_left |-> ~tl.default_left,
                  left |-> tl.right, right |-> tl.left]
  IN IF tl.op = "categorical" \/ isnan(tl.threshold) THEN swapped
     ELSE CASE tl.op = "kLT" -> same
            [] tl.op = "kLE" -> [same EXCEPT !.thresh = nextafterf(tl.threshold, 1)]
            [] tl.op = "kGT" -> [swapped EXCEPT !.thresh = nextafterf(tl.threshold, 1)]
            [] tl.op = "kGE" -> swapped

\* is an inner node of a treelite tree imported as a categorical node, and the
\* categories it lists
TlIsCategorical(tl) == ~tl.is_leaf /\ (tl.op = "categorical" \/ isnan(tl.threshold))
TlCategories(tl) ==
  IF ~tl.is_leaf /\ tl.op = "categorical" THEN tl.left_categories ELSE {}

\* the categories of every feature of the imported forest: one more than the
\* largest category that a test on the feature lists
tl2fil_fid_num_cats(model) ==
  [fid \in 0 .. (ps.num_cols - 1) |->
     LET listed == UNION {TlCategories(model[t].nodes[k]) :
                            <<t, k>> \in {tk \in (DOMAIN model) \X (0 .. forest_num_nodes(ps)) :
                                           /\ tk[2] \in DOMAIN model[tk[1]].nodes
                                           /\ ~model[tk[1]].nodes[tk[2]].is_leaf
                                           /\ model[tk[1]].nodes[tk[2]].fid = fid}}
     IN IF listed = {} THEN 0
        ELSE (CHOOSE c \in listed : \A d \in listed : d <= c) + 1]

\* the bits of one imported categorical node: bit (c % 8) of byte (c / 8) is set
\* for every listed category c
TlMask(num_cats, cats) ==
  [b \in 1 .. ceildiv(num_cats, BITS_PER_BYTE) |->
     SumTo([i \in 0 .. (BITS_PER_BYTE - 1) |->
              IF (((b - 1) * BITS_PER_BYTE) + i) \in cats THEN 2 ^ i ELSE 0],
           BITS_PER_BYTE)]

RECURSIVE TlTreeBits(_, _, _)
\* the bits of the categorical nodes of a tree with keys below upto, in key order
TlTreeBits(tree, fid_num_cats, upto) ==
  IF upto <= 0 THEN <<>>
  ELSE LET tl == tree.nodes[upto - 1]
       IN TlTreeBits(tree, fid_num_cats, upto - 1)
            \o (IF TlIsCategorical(tl)
                THEN TlMask(fid_num_cats[tl.fid], TlCategories(tl))
                ELSE <<>>)

RECURSIVE TlModelBits(_, _, _)
\* the bits of the first n trees of a model
TlModelBits(model, fid_num_cats, n) ==
  IF n <= 0 THEN <<>>
  ELSE TlModelBits(model, fid_num_cats, n - 1)
         \o TlTreeBits(model[n], fid_num_cats, Cardinality(DOMAIN model[n].nodes))

\* the categorical sets of the imported forest
tl2fil_cat_sets(model) ==
  LET fid_num_cats == tl2fil_fid_num_cats(model)
  IN [bits |-> TlModelBits(model, fid_num_cats, Len(model)),
      fid_num_cats |-> fid_num_cats]

\* tree t of the model with the place of its bits
TlImportTree(model, t) ==
  LET fid_num_cats == tl2fil_fid_num_cats(model)
  IN [root_key |-> model[t].root_key, nodes |-> model[t].nodes,
      fid_num_cats |-> fid_num_cats,
      set_base |-> Len(TlModelBits(model, fid_num_cats, t - 1))]

\* the split of the imported node: its threshold, or the first byte of its bits
tl2fil_split(tree, key, adj) ==
  IF TlIsCategorical(tree.nodes[key])
  THEN tree.set_base + Len(TlTreeBits(tree, tree.fid_num_cats, key))
  ELSE adj.thresh

RECURSIVE TlDepth(_, _)
\* depth of the subtree of a treelite tree at key
TlDepth(tree, key) ==
  LET tl == tree.nodes[key]
  IN IF tl.is_leaf THEN 0
     ELSE 1 + (IF TlDepth(tree, tl.left) > TlDepth(tree, tl.right)
               THEN TlDepth(tree, tl.left) ELSE TlDepth(tree, tl.right))

RECURSIVE tl2fil_dense_node(_, _, _, _, _)
\* the subtree at key written at position i of the dense tree at root
tl2fil_dense_node(dense, tree, key, root, i) ==
  LET tl == tree.nodes[key]
      adj == tl2fil_adjust(tl)
  IN IF tl.is_leaf
     THEN [dense EXCEPT ![root + i] = dense_node(tl.output, 0, 0, FALSE, TRUE, FALSE)]
     ELSE LET left == tl2fil_dense_node(
                        [dense EXCEPT ![root + i] =
                           dense_node(0, tl2fil_split(tree, key, adj), tl.fid,
                                      adj.def_left, FALSE, TlIsCategorical(tl))],
                        tree, adj.left, root, (2 * i) + 1)
          IN IF left[root + i].is_leaf
             THEN left
             ELSE tl2fil_dense_node(left, tree, adj.right, root, (2 * i) + 2)

RECURSIVE MaxDepthOf(_, _)
\* the largest depth of the first n trees of a model
MaxDepthOf(model, n) ==
  IF n <= 0 THEN 0
  ELSE LET d == TlDepth(model[n], model[n].root_key)
           rest == MaxDepthOf(model, n - 1)
       IN IF d > rest THEN d ELSE rest

RECURSIVE tl2fil_dense_trees(_, _, _, _)
tl2fil_dense_trees(dense, model, n, t) ==
  IF t > Len(model) THEN dense
  ELSE LET imported == tl2fil_dense_node(dense, TlImportTree(model, t),
                                         model[t].root_key, (t - 1) * n, 0)
       IN IF imported[(t - 1) * n].fid >= 0
          THEN tl2fil_dense_trees(imported, model, n, t + 1)
          ELSE dense

\* the model as a dense forest: every tree takes the nodes of the deepest one
tl2fil_dense(model) ==
  LET n == (2 ^ (MaxDepthOf(model, Len(model)) + 1)) - 1
      empty == [i \in 0 .. ((n * Len(model)) - 1) |->
                  dense_node(0, 0, 0, FALSE, TRUE, FALSE)]
  IN [storage |-> "dense",
      nodes |-> tl2fil_dense_trees(empty, model, n, 1),
      trees |-> [t \in 1 .. Len(model) |-> (t - 1) * n],
      cat_sets |-> tl2fil_cat_sets(model)]

RECURSIVE tl2fil_sparse_node(_, _, _, _, _, _)
\* the subtree at key written at i_sparse; children take two new adjacent nodes
tl2fil_sparse_node(sparse, test, tree, key, i_sparse_root, i_sparse) ==
  LET tl == tree.nodes[key]
      adj == tl2fil_adjust(tl)
      left_index == Len(sparse)
      reserved == Append(Append(sparse, fil_node_default(test)), fil_node_default(test))
  IN IF tl.is_leaf
     THEN SetAt(sparse, i_sparse, fil_node_t(test, tl.output, 0, 0, FALSE, TRUE, FALSE, 0))
     ELSE LET left == tl2fil_sparse_node(
                        SetAt(reserved, i_sparse,
                              fil_node_t(test, 0, tl2fil_split(tree, key, adj), tl.fid,
                                         adj.def_left, FALSE, TlIsCategorical(tl),
                                         left_index - i_sparse_root)),
                        test, tree, adj.left, i_sparse_root, left_index)
          IN IF Len(left) >= 0
             THEN tl2fil_sparse_node(left, test, tree, adj.right, i_sparse_root,
                                     left_index + 1)
             ELSE left

RECURSIVE tl2fil_sparse_trees(_, _, _, _)
tl2fil_sparse_trees(f, test, model, t) ==
  IF t > Len(model) THEN f
  ELSE LET i_sparse_root == Len(f.nodes)
           sparse == tl2fil_sparse_node(Append(f.nodes, fil_node_default(test)), test,
                                        TlImportTree(model, t), model[t].root_key,
                                        i_sparse_root, i_sparse_root)
       IN IF Len(sparse) >= 0
          THEN tl2fil_sparse_trees(
                 [storage |-> "sparse", nodes |-> sparse,
                  trees |-> Append(f.trees, i_sparse_root), cat_sets |-> f.cat_sets],
                 test, model, t + 1)
          ELSE f

\* the model as a sparse forest of the node type of the test class
tl2fil_sparse(test, model) ==
  tl2fil_sparse_trees([storage |-> "sparse", nodes |-> <<>>, trees |-> <<>>,
                       cat_sets |-> tl2fil_cat_sets(model)],
                      test, model, 1)

\* variant: only the number of features is checked
Sparse8Fits_features(p, model) == p.num_cols <= Sparse8Fids

\* can fil::sparse_node8 hold the model: its features and the nodes of every tree
Sparse8Fits(p, model) ==
  /\ p.num_cols <= Sparse8Fids
  /\ \A t \in 1 .. Len(model) : Cardinality(DOMAIN model[t].nodes) <= Sparse8Nodes

\* fil::from_treelite(handle, pforest, model, &params) for params.storage_type
FromTreelite ==
  /\ fil_pc = "to_treelite"
  /\ Len(tl_model) = ps.num_trees
  /\ IF ps.test = "treelite_sparse8" /\ ~Sparse8Fits(ps, tl_model)
     THEN /\ thrown' = TRUE
          /\ fil_pc' = "thrown"
          /\ UNCHANGED forest
     ELSE /\ forest' = forest_storage(
                         IF ps.test = "treelite_dense" THEN tl2fil_dense(tl_model)
                         ELSE tl2fil_sparse(ps.test, tl_model),
                         forest_params_t(ps))
          /\ fil_pc' = "predict"
          /\ UNCHANGED thrown
  /\ UNCHANGED notFil
  /\ UNCHANGED predicts
  /\ UNCHANGED <<ps, nodes, cat_sets_h, data_h, want_preds_h, want_proba_h, sparse_nodes, trees, calls, tl_model,
                 preds_h, proba_h>>

\* FilTestParams of the prediction and import tests, and of the two tests that
\* expect the import into sparse8 to throw (too many features, too many nodes)
FilTestParams(depth, num_trees, num_cols, op, test) ==
  [depth |-> depth, num_trees |-> num_trees, num_cols |-> num_cols, op |-> op,
   test |-> test,
   node_categorical_prob |-> 0, feature_categorical_prob |-> 0, cat_match_prob |-> 50,
   output |-> {}, threshold |-> 0, global_bias |-> 0, algo |-> "NAIVE",
   leaf_algo |-> "FLOAT_UNARY_BINARY", num_classes |-> 1]

FilInputs ==
  {FilTestParams(FilDepth, FilTrees, FilCols, "kLT", test) :
     test \in {"dense", "sparse16", "sparse8"}}
  \cup {FilTestParams(FilDepth, FilTrees, FilCols, op, test) :
          op \in {"kLT", "kLE", "kGT", "kGE"},
          test \in {"treelite_dense", "treelite_sparse16", "treelite_sparse8"}}

import_throw_sparse8_inputs ==
  {FilTestParams(FilDepth, FilTrees, FilCols + 1, "kLT", "treelite_sparse8"),
   FilTestParams(FilDepth + 1, FilTrees, FilCols, "kLT", "treelite_sparse8")}

\* the inputs with categorical nodes: half of the features and nodes categorical,
\* all of them with every category matching, all of them with none matching
\* (percentages: node_categorical_prob, feature_categorical_prob, cat_match_prob)
FilCategoricalProbs == {<<50, 50, 50>>, <<100, 100, 100>>, <<100, 100, 0>>}

FilCategoricalInputs ==
  {[p EXCEPT !.node_categorical_prob = c[1], !.feature_categorical_prob = c[2],
             !.cat_match_prob = c[3]] :
     p \in {q \in FilInputs : q.op \in {"kLT", "kGT"}}, c \in FilCategoricalProbs}

\* the inputs with another algorithm than NAIVE
FilAlgoInputs ==
  {[p EXCEPT !.algo = algo] :
     p \in {q \in FilInputs : q.op = "kLT" /\ q.test \in {"dense", "treelite_dense"}},
     algo \in FilAlgos \ {"NAIVE"}}
  \cup {[p EXCEPT !.algo = "ALGO_AUTO"] :
          p \in {q \in FilInputs : q.op = "kLT" /\ q.test = "sparse16"}}

\* the output flags of the inputs
FilOutputs ==
  {{"AVG"}, {"SIGMOID"}, {"AVG", "CLASS"}, {"SIGMOID", "CLASS"}, {"AVG", "SIGMOID", "CLASS"}}

\* a threshold in the middle of the averaged sums of the leaves, two thirds above a
\* whole number
FilMidThreshold(p) ==
  ((((p.num_trees * tree_num_nodes(p)) + ((tree_num_nodes(p) + 1) \div 2)) * FilOne) \div 2)
    + ((2 * FilOne) \div 3)

\* the inputs with an output transform: global_bias 0.5, threshold 0.5 or in
\* the middle of the outputs
FilOutputInputs ==
  {[p EXCEPT !.output = output,
             !.threshold = IF mid THEN FilMidThreshold(p) ELSE FilOne \div 2,
             !.global_bias = FilOne \div 2, !.algo = algo] :
     p \in {q \in FilInputs : q.op = "kLT" /\ q.test = "dense"},
     output \in FilOutputs, mid \in BOOLEAN,
     algo \in {"NAIVE", "BATCH_TREE_REORG"}}

\* the inputs with GROVE_PER_CLASS: two classes, and a number of trees that is
\* and one that is not a multiple of the number of classes
FilGroveInputs ==
  {[p EXCEPT !.leaf_algo = "GROVE_PER_CLASS", !.num_classes = 2,
             !.num_trees = num_trees, !.output = output, !.global_bias = FilOne \div 2,
             !.algo = algo] :
     p \in {q \in FilInputs : q.op = "kLT" /\ q.test = "dense"},
     num_trees \in {FilTrees, FilTrees + 1},
     output \in {{}, {"AVG"}, {"SOFTMAX"}, {"AVG", "SOFTMAX"}},
     algo \in {"NAIVE", "TREE_REORG"}}

\* inner positions of a tree that a test turns into leaves
FilMaxLeaves == 2

\* the choices of leaves among the inner positions, and of default directions,
\* of the forest of a test
FilLeaves(p) ==
  IF p \in import_throw_sparse8_inputs THEN {{}}
  ELSE IF p \in FilCategoricalInputs THEN {{}, {1}}
  ELSE IF p \in FilOutputInputs \cup FilGroveInputs THEN {{}, {0}, {2}}
  ELSE {l \in SUBSET (0 .. ((tree_num_nodes(p) \div 2) - 1)) : Cardinality(l) <= FilMaxLeaves}

FilDefLefts(p) == IF p \in import_throw_sparse8_inputs THEN {0} ELSE {0, 1}

FilInit ==
  /\ \E p \in ((FilInputs \cup FilCategoricalInputs) \cup import_throw_sparse8_inputs)
               \cup ((FilAlgoInputs \cup FilOutputInputs) \cup FilGroveInputs) :
       \E leaves \in FilLeaves(p) :
         \E dl \in FilDefLefts(p) :
           /\ ps = p
           /\ nodes = generate_forest(p, leaves, dl).nodes
           /\ cat_sets_h = generate_forest(p, leaves, dl).cat_sets_h
  /\ data_h = generate_data(ps, cat_sets_h.fid_num_cats)
  /\ want_preds_h = <<>>
  /\ want_proba_h = <<>>
  /\ sparse_nodes = <<>>
  /\ trees = <<>>
  /\ calls = <<>>
  /\ tl_model = <<>>
  /\ forest = <<>>
  /\ thrown = FALSE
  /\ preds_h = <<>>
  /\ proba_h = <<>>
  /\ predicts = <<>>
  /\ fil_pc = "generated"
  /\ PartOff /\ SelOff /\ SplitOff /\ LbOff

FilNext ==
  \/ PredictOnCpu
  \/ InitDense
  \/ Dense2SparseTree
  \/ Dense2SparseNode
  \/ InitSparse
  \/ BuildTree
  \/ FromTreelite
  \/ PredictOnGpu
  \/ Predict
  \/ Free

SpecFil == FilInit /\ [][FilNext]_vars

\* the trees of the test, from 1, and the root of tree t in nodes
FilTreeIds == 1 .. ps.num_trees
DenseRoot(t) == (t - 1) * tree_num_nodes(ps)

\* every tree of the forest reaches, for every row, the output that the dense
\* nodes of the test give, and so do the predictions
AgreesWithDense ==
  /\ \A t \in FilTreeIds : \A row \in data_h :
       InferForest(forest, t, row) = infer_one_tree(nodes, DenseRoot(t), row, tree_base(cat_sets_h))
  /\ fil_pc = "predicted" => (preds_h = want_preds_h /\ proba_h = want_proba_h)

\* C8: the forest built from the dense nodes (children at 2i+1, 2i+2) and the
\* sparse16 and sparse8 forests built by dense2sparse (left child at its offset
\* from the tree root, right child next to it) reach for every row and every
\* tree a leaf with the same output, and their predictions are the same.
C8_EncodingsAgree ==
  (fil_pc \in {"predict", "predicted"} /\ ps.test \in {"dense", "sparse16", "sparse8"})
    => AgreesWithDense

\* a sparse8 forest whose second tree has an inner node below a root that kept
\* a leaf child: the sparse offsets differ from the dense positions
C8_Witness ==
  /\ fil_pc = "predicted"
  /\ ps.test = "sparse8"
  /\ Len(trees) = FilTrees
  /\ Len(sparse_nodes) < forest_num_nodes(ps)
  /\ \E i \in (trees[2] + 1) .. (Len(sparse_nodes) - 1) :
       /\ ~At(sparse_nodes, i).is_leaf
       /\ At(sparse_nodes, i).left_index # (2 * (i - trees[2])) + 1

RECURSIVE DenseReachable(_, _)
\* number of nodes of the dense tree at root that can be reached from position i
DenseReachable(root, i) ==
  IF nodes[root + i].is_leaf THEN 1
  ELSE (1 + DenseReachable(root, (2 * i) + 1)) + DenseReachable(root, (2 * i) + 2)

\* the model of the test has more features, or a tree more nodes, than
\* fil::sparse_node8 holds
ExceedsSparse8 ==
  \/ ps.num_cols > Sparse8Fids
  \/ \E t \in FilTreeIds : DenseReachable(DenseRoot(t), 0) > Sparse8Nodes

\* C10: the import into sparse8 of a model with too many features or a tree with
\* too many nodes throws: no forest is produced and nothing is predicted; the
\* exception is raised by the import; a sparse8 forest that is produced holds
\* every feature id and child offset as the sparse16 forest of the model does.
C10_Sparse8ImportThrows ==
  /\ [](/\ (/\ ps # <<>>
            /\ ps.test = "treelite_sparse8"
            /\ fil_pc \notin {"generated", "to_treelite"}
            /\ ExceedsSparse8)
           => (thrown /\ fil_pc = "thrown" /\ forest = <<>> /\ preds_h = <<>>)
        /\ (ps # <<>> /\ ps.test = "treelite_sparse8" /\ forest # <<>>)
           => forest = forest_storage(tl2fil_sparse("treelite_sparse16", tl_model),
                                      forest_params_t(ps)))
  /\ [][(thrown' /\ ~thrown) => (fil_pc = "to_treelite" /\ fil_pc' = "thrown")]_vars

\* the import of a model with too deep trees has thrown
C10_Witness ==
  /\ thrown
  /\ ps.depth = FilDepth + 1
  /\ Len(tl_model) = ps.num_trees
  /\ forest = <<>>

\* the tree_base of predict_on_cpu
TreeBase == tree_base(cat_sets_h)

\* the categorical nodes of the test, and the third argument of generate_forest
\* as the default direction of the first node shows it
CategoricalNodes == {i \in DOMAIN nodes : nodes[i].is_categorical}
FilDl == IF nodes[0].def_left THEN 0 ELSE 1

\* the values tried at a categorical node: both halves of every category of
\* its feature, and the values of generate_data
CategoricalTries(node) ==
  LET num_cats == cat_sets_h.fid_num_cats[node.fid]
  IN (FilVals \cup CatVals(num_cats))
       \cup {(FloatScale * c) + h : c \in 0 .. (num_cats - 1), h \in {0, 1}}

\* v names a category of the feature of the node
InCategories(node, v) ==
  /\ ~isnan(v)
  /\ v \notin {PosInf, NegInf}
  /\ v >= 0
  /\ v < FloatScale * cat_sets_h.fid_num_cats[node.fid]

\* cond of the child that def_left selects
DefaultCond(node) == IF node.def_left THEN 0 ELSE 1

RECURSIVE TlInfer(_, _, _)
\* treelite's evaluation of a tree built by node_to_treelite: a NaN value takes
\* the default child; a numerical test takes the left child if val [op]
\* threshold, which no value is for a NaN threshold; a categorical test takes
\* the left child for the listed categories
TlInfer(tree, key, row) ==
  LET tl == tree.nodes[key]
      val == row[tl.fid]
      holds == IF tl.op = "categorical"
               THEN val >= 0 /\ val # PosInf /\ CategoryOf(val) \in tl.left_categories
               ELSE /\ ~isnan(tl.threshold)
                    /\ CASE tl.op = "kLT" -> val < tl.threshold
                         [] tl.op = "kLE" -> val <= tl.threshold
                         [] tl.op = "kGT" -> val > tl.threshold
                         [] tl.op = "kGE" -> val >= tl.threshold
  IN IF tl.is_leaf THEN tl.output
     ELSE IF isnan(val)
     THEN TlInfer(tree, IF tl.default_left THEN tl.left ELSE tl.right, row)
     ELSE TlInfer(tree, IF holds THEN tl.left ELSE tl.right, row)

\* the bits of the categorical nodes are as drawn, and every tree exported to
\* treelite gives for every row the output of infer_one_tree
BitsAndExportAgree ==
  /\ \A i \in CategoricalNodes :
       LET node == nodes[i]
           num_cats == cat_sets_h.fid_num_cats[node.fid]
           drawn == bits_precursor(ps, FilDl, Len(cat_sets_h.bits))
       IN /\ node.split + sizeof_mask(cat_sets_h.fid_num_cats, node.fid)
               <= Len(cat_sets_h.bits)
          /\ \A c \in 0 .. (num_cats - 1) :
               /\ c \div BITS_PER_BYTE < sizeof_mask(cat_sets_h.fid_num_cats, node.fid)
               /\ category_matches(cat_sets_h, node, FloatScale * c)
                    <=> (drawn[(node.split * BITS_PER_BYTE) + c] = 1)
  /\ \A t \in 1 .. Len(tl_model) : \A row \in data_h :
       TlInfer(tl_model[t], tl_model[t].root_key, row)
         = infer_one_tree(nodes, (t - 1) * tree_num_nodes(ps), row, TreeBase)

RECURSIVE DenseWalk(_, _, _, _, _)
\* the positions that the loop of infer_one_tree reads in the tree at root, one
\* after the other, walk being those read so far; the walk is cut at a position
\* outside the 2^(depth+1) - 1 nodes of the tree, and when it is longer than
\* the tree has nodes
DenseWalk(dense, root, row, tree, walk) ==
  LET curr == walk[Len(walk)]
  IN IF curr < 0 \/ curr >= tree_num_nodes(ps) \/ Len(walk) > tree_num_nodes(ps)
     THEN walk
     ELSE IF dense[root + curr].is_leaf THEN walk
     ELSE DenseWalk(dense, root, row, tree,
                    Append(walk, child_index_dense(tree, dense[root + curr], curr,
                                                   row[dense[root + curr].fid])))

\* the walk of tree t (from 1) of the test for a row, from the root
WalkOf(t, row) == DenseWalk(nodes, DenseRoot(t), row, TreeBase, <<0>>)

\* the last level of every tree of the test holds leaves only
LastLevelLeaves ==
  \A t \in FilTreeIds :
    \A j \in (tree_num_nodes(ps) \div 2) .. (tree_num_nodes(ps) - 1) :
      nodes[DenseRoot(t) + j].is_leaf

\* C12: in the dense forest of a test the last level of every tree holds leaves
\* only, and for every tree and every row infer_one_tree starts at the root,
\* goes at every step from a node that is no leaf to exactly one of its two
\* children, reads only positions within the 2^(depth+1) - 1 nodes of the tree,
\* and ends at a leaf after at most depth steps, returning the output of that
\* leaf.
C12_WalkEndsAtLeafInTree ==
  (ps # <<>>) =>
    /\ LastLevelLeaves
    /\ \A t \in FilTreeIds : \A row \in data_h :
         LET walk == WalkOf(t, row)
             last == walk[Len(walk)]
         IN /\ walk[1] = 0
            /\ \A k \in 1 .. Len(walk) : walk[k] \in 0 .. (tree_num_nodes(ps) - 1)
            /\ \A k \in 1 .. (Len(walk) - 1) :
                 /\ ~nodes[DenseRoot(t) + walk[k]].is_leaf
                 /\ walk[k + 1] \in {(2 * walk[k]) + 1, (2 * walk[k]) + 2}
            /\ nodes[DenseRoot(t) + last].is_leaf
            /\ Len(walk) - 1 <= ps.depth
            /\ infer_one_tree(nodes, DenseRoot(t), row, TreeBase)
                 = nodes[DenseRoot(t) + last].output

\* predict_on_cpu has run on a forest in which a row takes depth steps to the
\* last node of a tree, and another row ends at an inner leaf
C12_Witness ==
  /\ want_preds_h # <<>>
  /\ \E t \in FilTreeIds : \E row \in data_h :
       /\ Len(WalkOf(t, row)) - 1 = ps.depth
       /\ WalkOf(t, row)[Len(WalkOf(t, row))] = tree_num_nodes(ps) - 1
  /\ \E t \in FilTreeIds : \E row \in data_h :
       /\ Len(WalkOf(t, row)) - 1 < ps.depth
       /\ Len(WalkOf(t, row)) > 1

\* node curr of tree t (from 1) of a forest, NoNode outside its nodes, and the
\* position of its left child
ForestNode(f, t, curr) ==
  IF f.storage = "dense"
  THEN (IF (f.trees[t] + (curr * f.node_pitch)) \in DOMAIN f.nodes
        THEN f.nodes[f.trees[t] + (curr * f.node_pitch)]
        ELSE NoNode)
  ELSE (IF ((f.trees[t] + curr) + 1) \in DOMAIN f.nodes THEN At(f.nodes, f.trees[t] + curr)
        ELSE NoNode)
ForestLeft(f, node, curr) ==
  IF f.storage = "dense" THEN (2 * curr) + 1 ELSE node.left_index

RECURSIVE ForestWalk(_, _, _, _)
\* the positions that the traversal of tree t of a forest reads for a row
ForestWalk(f, t, row, walk) ==
  LET curr == walk[Len(walk)]
      node == ForestNode(f, t, curr)
      tree == tree_base(f.cat_sets)
  IN IF node.is_leaf \/ Len(walk) > Cardinality(DOMAIN f.nodes) THEN walk
     ELSE ForestWalk(f, t, row,
                     Append(walk,
                            IF f.storage = "dense"
                            THEN child_index_dense(tree, node, curr, row[node.fid])
                            ELSE child_index_sparse(tree, node, curr, row[node.fid])))

\* the child taken at step k of a walk in a forest: 0 left, 1 right
ForestTurn(f, t, walk, k) ==
  walk[k + 1] - ForestLeft(f, ForestNode(f, t, walk[k]), walk[k])

\* the child that a value takes at a node by the canonical rule: by def_left
\* for NaN, left exactly when val < thresh at a numerical node
CanonicalTurn(node, val) ==
  IF isnan(val) THEN (IF node.def_left THEN 0 ELSE 1)
  ELSE (IF val < node.split THEN 0 ELSE 1)

FilBaseForest ==
  CASE ps.test = "dense" ->
         [storage |-> "dense", nodes |-> nodes,
          trees |-> [t \in 1 .. ps.num_trees |-> (t - 1) * tree_num_nodes(ps)],
          cat_sets |-> cat_sets_h]
    [] ps.test \in {"sparse16", "sparse8"} ->
         [storage |-> "sparse", nodes |-> sparse_nodes, trees |-> trees,
          cat_sets |-> cat_sets_h]
    [] ps.test = "treelite_dense" -> tl2fil_dense(tl_model)
    [] OTHER -> tl2fil_sparse(ps.test, tl_model)

\* the forest of the test stored for every algorithm
ForestsByAlgo ==
  LET base == FilBaseForest
      params == forest_params_t(ps)
  IN [NAIVE |-> forest_storage(base, [params EXCEPT !.algo = "NAIVE"]),
      TREE_REORG |-> forest_storage(base, [params EXCEPT !.algo = "TREE_REORG"]),
      BATCH_TREE_REORG |-> forest_storage(base, [params EXCEPT !.algo = "BATCH_TREE_REORG"]),
      ALGO_AUTO |-> forest_storage(base, [params EXCEPT !.algo = "ALGO_AUTO"])]

\* the leaf output of every tree of a forest for every row
LeafOutputs(f) ==
  [tr \in (1 .. Len(f.trees)) \X data_h |-> InferForest(f, tr[1], tr[2])]

GroveLeaf(tree, row) ==
  infer_one_tree(nodes, tree * tree_num_nodes(ps), row, tree_base(cat_sets_h))

\* the sum of the leaf outputs of the trees whose number is c modulo num_classes
GroveSum(row, c) ==
  SumTo([tree \in 0 .. (ps.num_trees - 1) |->
           IF tree % ps.num_classes = c THEN GroveLeaf(tree, row) ELSE 0],
        ps.num_trees)

\* class_scores of a row after the trees from tree on have been added
GroveScoresFrom(row, tree) ==
  ClassScoresFrom(ps, nodes, row, tree_base(cat_sets_h),
                  [c \in 0 .. (ps.num_classes - 1) |-> 0], tree)

\* C15: with GROVE_PER_CLASS tree number t adds its leaf value to the
\* accumulator of class t mod num_classes and leaves every other accumulator as
\* it is, whether or not num_trees is a multiple of num_classes; so every
\* accumulator ends as the sum over the trees of its class, and the outputs of
\* predict_on_cpu are those of these sums
C15_GrovePerClass ==
  (ps.leaf_algo = "GROVE_PER_CLASS") =>
    \A row \in data_h :
      /\ \A tree \in 0 .. (ps.num_trees - 1) : \A c \in 0 .. (ps.num_classes - 1) :
           GroveScoresFrom(row, tree)[c]
             = GroveScoresFrom(row, tree + 1)[c]
                 + (IF c = tree % ps.num_classes THEN GroveLeaf(tree, row) ELSE 0)
      /\ \A c \in 0 .. (ps.num_classes - 1) :
           ClassScores(ps, nodes, row, tree_base(cat_sets_h))[c] = GroveSum(row, c)
      /\ want_preds_h # <<>> =>
           /\ want_preds_h[row]
                = max_element([c \in 0 .. (ps.num_classes - 1) |-> GroveSum(row, c)])
           /\ "SOFTMAX" \notin ps.output =>
                \A c \in 0 .. (ps.num_classes - 1) :
                  want_proba_h[row][c] = transform(ps, GroveSum(row, c)).proba

\* predict_on_cpu has run with GROVE_PER_CLASS on a forest whose number of trees
\* is not a multiple of the number of classes, every class has a tree, and the
\* classes of some row have different sums
C15_Witness ==
  /\ ps.leaf_algo = "GROVE_PER_CLASS"
  /\ want_preds_h # <<>>
  /\ ps.num_trees % ps.num_classes # 0
  /\ ps.num_trees > ps.num_classes
  /\ \E row \in data_h :
       /\ GroveSum(row, 0) # GroveSum(row, 1)
       /\ GroveSum(row, 1) > 0
       /\ GroveLeaf(ps.num_trees - 1, row) > 0


\* the sum of the leaf outputs of all trees of the dense forest for a row
RawSum(row) ==
  SumTo([tree \in 0 .. (ps.num_trees - 1) |-> GroveLeaf(tree, row)], ps.num_trees)

\* the sums that the transform is applied to: of all trees, or of every class
RawScores(row) ==
  IF ps.leaf_algo = "GROVE_PER_CLASS"
  THEN [c \in 0 .. (ps.num_classes - 1) |-> GroveSum(row, c)]
  ELSE [c \in {1} |-> RawSum(row)]

\* the steps up to the bias, and up to sigmoid, in the order of the pipeline
Biased(row) ==
  [c \in DOMAIN RawScores(row) |-> output_bias(ps, output_avg(ps, RawScores(row)[c]))]

Squashed(row) == [c \in DOMAIN RawScores(row) |-> output_sigmoid(ps, Biased(row)[c])]

UpdatedOf(nid) == {updates[i] : i \in {j \in 1 .. Len(updates) : NidOf(updates[j]) = nid}}

\* C18: after the kernel the record of every node holds a candidate of the node
\* whose gain is the largest over the candidates of all its columns, in every
\* interleaving of the blocks; on the way no update is lost or undone: the
\* gain of a record never goes down, and it is at least the gain of every
\* candidate that a block has already put to it
C18_BestSplitIsMaximum ==
  /\ [](KernelDone =>
          \A nid \in Nids :
            /\ \A c \in Candidates(nid) :
                 c.best_metric_val <= node_split[nid].best_metric_val
            /\ Candidates(nid) # {} => node_split[nid] \in Candidates(nid)
            /\ Candidates(nid) = {} => node_split[nid] = Split_init)
  /\ [](\A nid \in Nids : \A b \in UpdatedOf(nid) :
          blk[b].sp.best_metric_val <= node_split[nid].best_metric_val)
  /\ [][\A nid \in Nids :
          node_split[nid].best_metric_val <= node_split'[nid].best_metric_val]_vars

\* the kernel is over, and a block that came to the update of a node with a real
\* candidate after a block with a better one has not replaced it
C18_Witness ==
  /\ KernelDone
  /\ \E i, j \in 1 .. Len(updates) :
       /\ i < j
       /\ NidOf(updates[i]) = NidOf(updates[j])
       /\ blk[updates[i]].sp.best_metric_val > blk[updates[j]].sp.best_metric_val
       /\ blk[updates[j]].sp.colid >= 0
       /\ node_split[NidOf(updates[i])] = blk[updates[i]].sp

\* the blocks that are inside the compare-and-update of node nid
InsideOf(nid) == {b \in Grid : NidOf(b) = nid /\ blk[b].pc \in {"compare", "update"}}

\* C19: at most one block at a time is inside the compare-and-update of a node,
\* and the mutex of the node is held exactly while one is; blocks of different
\* nodes have different mutexes, so that a block waiting for the mutex of its
\* node finds it free whenever no block of its own node is inside, whatever the
\* blocks of other nodes do
C19_PerNodeMutualExclusion ==
  /\ \A nid \in Nids :
       /\ Cardinality(InsideOf(nid)) <= 1
       /\ mutex[nid] = (IF InsideOf(nid) = {} THEN 0 ELSE 1)
  /\ \A b1 \in Grid, b2 \in Grid :
       (MutexOf(b1) = MutexOf(b2)) <=> (NidOf(b1) = NidOf(b2))
  /\ \A b \in Grid :
       (blk[b].pc = "lock" /\ InsideOf(NidOf(b)) = {}) => mutex[MutexOf(b)] = 0

\* a block of each of two nodes is inside the compare-and-update of its node at
\* the same time, while another block of one of the nodes waits for the mutex
C19_Witness ==
  /\ Cardinality(Nids) = 2
  /\ \A nid \in Nids : Cardinality(InsideOf(nid)) = 1
  /\ \E b \in Grid : blk[b].pc = "lock" /\ mutex[MutexOf(b)] = 1

\* the blocks of a column of a node: those that went on behind the done counter,
\* and those that returned at it
ProceededOf(nid, y) ==
  {b \in Grid : /\ NidOf(b) = nid /\ b[2] = y
                /\ blk[b].pc \in {"scan", "lock", "compare", "update", "done"}}

ReturnedOf(nid, y) == {b \in Grid : NidOf(b) = nid /\ b[2] = y /\ blk[b].pc = "exit"}

\* C20: of the blocks of a node that is sharded over several blocks, for every
\* column at most one goes on to the scan and the split evaluation, and it
\* does so when all blocks of the column have signalled its done counter, as
\* the last of them; every other block has returned at the counter without a
\* candidate and without an update of the split; after the kernel exactly one
\* has gone on
C20_LastBlockProceeds ==
  \A x \in DOMAIN workload_info : \A y \in Cols :
    LET nid == workload_info[x].nodeid
        num_blocks == workload_info[x].num_blocks
    IN (num_blocks > 1) =>
         /\ Cardinality(ProceededOf(nid, y)) <= 1
         /\ ProceededOf(nid, y) # {} =>
              /\ done_count[(nid * gridDim_y) + y] = num_blocks
              /\ Cardinality(ReturnedOf(nid, y)) = num_blocks - 1
         /\ done_count[(nid * gridDim_y) + y]
              = Cardinality(ProceededOf(nid, y)) + Cardinality(ReturnedOf(nid, y))
         /\ \A b \in ReturnedOf(nid, y) :
              /\ blk[b].sp = Split_init
              /\ blk[b].cur = Split_init
              /\ \A i \in 1 .. Len(updates) : updates[i] # b
         /\ KernelDone => Cardinality(ProceededOf(nid, y)) = 1

\* the kernel is over for a node on several blocks with samples in all of them:
\* in every column one block has updated the split from the histogram of all
\* blocks, and the block that went on is not the same in the two columns
C20_Witness ==
  /\ KernelDone
  /\ Cardinality(DOMAIN workload_info) > 1
  /\ \A x \in DOMAIN workload_info : workload_info[x].num_blocks > 1
  /\ node_item[0].instances.count = SplitRows
  /\ Len(updates) = Cardinality(Cols)
  /\ updates[1][1] # updates[2][1]
  /\ node_split[0].colid >= 0

\* the blocks <<blockIdx.x, threadIdx.x>> of node nid whose loop visits position i,
\* once for each visit
VisitorsOf(nid, i) ==
  {xtk \in (DOMAIN workload_info) \X (Threads \X (0 .. SplitRows)) :
     /\ workload_info[xtk[1]].nodeid = nid
     /\ xtk[2] \in Visits(node_item[nid], i, workload_info[xtk[1]].offset_blockid,
                          workload_info[xtk[1]].num_blocks)}

\* samples of node nid of class c that lower_bound puts into bin b of column col
CountInBin(nid, col, b, c) ==
  Cardinality({i \in NodePositions(nid) :
                 /\ lower_bound(Sbins(col), nbins,
                                input.data[input.rowids[i] + (col * input.M)]) = b
                 /\ input.labels[input.rowids[i]] = c})

\* the pdf histogram of all samples of node nid for column col
NodeHistogram(nid, col) ==
  [i \in 0 .. ((nbins * NumClasses) - 1) |-> CountInBin(nid, col, i % nbins, i \div nbins)]

\* sum of the cells of a histogram
HistogramTotal(shist) == SumTo(shist, nbins * NumClasses)

\* C21: the blocks of a node have offset_blockid 0 .. num_blocks - 1; every
\* position of the range of the node is visited by exactly one thread of
\* exactly one of them, once; the histogram that a block takes to the scan is
\* the histogram of all samples of the node, with the contributions of all
\* num_blocks blocks, so that its total is the row count of the node, in
\* every interleaving of the blocks
C21_ShardedHistogramComplete ==
  /\ \A nid \in Nids :
       LET xs == {x \in DOMAIN workload_info : workload_info[x].nodeid = nid}
       IN /\ \A x \in xs : workload_info[x].num_blocks = Cardinality(xs)
          /\ {workload_info[x].offset_blockid : x \in xs} = 0 .. (Cardinality(xs) - 1)
          /\ \A i \in NodePositions(nid) : Cardinality(VisitorsOf(nid, i)) = 1
  /\ \A b \in Grid :
       blk[b].pc = "scan" =>
         /\ blk[b].shared_histogram = NodeHistogram(NidOf(b), ColOf(b))
         /\ HistogramTotal(blk[b].shared_histogram) = node_item[NidOf(b)].instances.count
         /\ workload_info[b[1]].num_blocks > 1 =>
              /\ done_count[DoneIndex(b)] = workload_info[b[1]].num_blocks
              /\ LoadHistogram(hist, histOffset(b)) = blk[b].shared_histogram

\* the last block of a node on several blocks is at the scan with the histogram
\* of all rows of the node, of which another block, which has returned, has
\* counted a part and the block itself another part
C21_Witness ==
  \E b \in Grid : \E o \in Grid :
    /\ blk[b].pc = "scan"
    /\ workload_info[b[1]].num_blocks > 1
    /\ o # b /\ NidOf(o) = NidOf(b) /\ ColOf(o) = ColOf(b)
    /\ blk[o].pc = "exit"
    /\ HistogramTotal(blk[o].shared_histogram) > 0
    /\ HistogramTotal(blk[o].shared_histogram) < node_item[NidOf(b)].instances.count
    /\ HistogramTotal(blk[b].shared_histogram) = SplitRows

\* C22: under fair scheduling of the blocks the kernel runs to completion for
\* every workload: every block ends, either by its return at the done counter
\* as a block that is not the last, or behind the compare-and-update, with the
\* mutex of its node acquired and released again; no block stays for ever at
\* the spin-mutex or at the done counter
C22_KernelCompletes ==
  <>[](/\ KernelDone
       /\ \A nid \in DOMAIN mutex : mutex[nid] = 0
       /\ \A b \in Grid :
            \/ /\ blk[b].pc = "exit"
               /\ workload_info[b[1]].num_blocks > 1
               /\ \A i \in 1 .. Len(updates) : updates[i] # b
            \/ /\ blk[b].pc = "done"
               /\ \E i \in 1 .. Len(updates) : updates[i] = b)

\* a node on several blocks: in each column all blocks but the last have
\* returned at the done counter, the last block of one column holds the mutex
\* of the node and the last block of the other column waits for it
C22_Witness ==
  /\ \A x \in DOMAIN workload_info : workload_info[x].num_blocks > 1
  /\ \A y \in Cols : Cardinality(ReturnedOf(0, y)) = workload_info[0].num_blocks - 1
  /\ \E b \in Grid : \E w \in Grid :
       /\ blk[b].pc = "update"
       /\ blk[w].pc = "lock"
       /\ MutexOf(w) = MutexOf(b)
       /\ mutex[MutexOf(w)] = 1

\* the largest number of iterations of the swap loop of block b:
\* ceil(nLeft / TPB) + ceil((count - nLeft) / TPB)
MaxIterations(b) ==
  ceildiv(splits[b].nLeft, TPB)
    + ceildiv(work_items[b].instances.count - splits[b].nLeft, TPB)

\* C23: the swap loop of partitionSamples ends for every range and every nLeft
\* in [0, count]: every iteration moves the left cursor or the right cursor, or
\* both, on by TPB and neither back, so that the iterations of a block are at
\* most ceil(nLeft / TPB) + ceil((count - nLeft) / TPB); the cursors stay
\* within one batch of their ends, and with nLeft = 0 or nLeft = count the
\* loop is not entered at all
C23_SwapLoopTerminates ==
  /\ [](\A b \in Blocks :
          cta[b].pc \in {"loop", "done"} =>
            LET begin == work_items[b].instances.begin
                nLeft == splits[b].nLeft
                count == work_items[b].instances.count
            IN /\ nLeft \in 0 .. count
               /\ cta[b].iters <= MaxIterations(b)
               /\ cta[b].iters <= ((cta[b].loffset - begin) \div TPB)
                                    + ((cta[b].roffset - cta[b].part) \div TPB)
               /\ cta[b].loffset - begin <= ceildiv(nLeft, TPB) * TPB
               /\ cta[b].roffset - cta[b].part <= ceildiv(count - nLeft, TPB) * TPB
               /\ (nLeft = 0 \/ nLeft = count) => (cta[b].iters = 0 /\ ~LoopCond(cta[b])))
  /\ [][\A b \in Blocks :
          (cta[b].pc = "loop" /\ LoopCond(cta[b]) /\ cta'[b] # cta[b]) =>
            /\ cta'[b].iters = cta[b].iters + 1
            /\ cta'[b].loffset \in {cta[b].loffset, cta[b].loffset + TPB}
            /\ cta'[b].roffset \in {cta[b].roffset, cta[b].roffset + TPB}
            /\ \/ cta'[b].loffset = cta[b].loffset + TPB
               \/ cta'[b].roffset = cta[b].roffset + TPB]_vars

\* a block has left the loop after more than one iteration, in one of which
\* only one of the two cursors moved on, and rows were swapped
C23_Witness ==
  \E b \in Blocks :
    /\ cta[b].pc = "done"
    /\ cta[b].iters >= 2
    /\ (cta[b].loffset - work_items[b].instances.begin) # (cta[b].roffset - cta[b].part)
    /\ rowids # launch_rowids

\* the blocks of the nodes that are processed by a single block
SingleBlocks == {b \in Grid : workload_info[b[1]].num_blocks = 1}

\* C24: a node processed by a single block completes in shared memory alone:
\* its block never comes to the addition into the global histogram or to the
\* done counter, no step of it changes the global histogram buffer or any
\* done counter, the counters of the node stay zero, and the block goes on to
\* the update of the split of its node
C24_SingleBlockSharedOnly ==
  /\ [](\A b \in SingleBlocks :
          /\ blk[b].pc \notin {"signal", "exit"}
          /\ done_count[DoneIndex(b)] = 0
          /\ KernelDone => \E i \in 1 .. Len(updates) : updates[i] = b)
  /\ [](SingleBlocks = Grid =>
          /\ \A i \in DOMAIN hist : hist[i] = 0
          /\ \A i \in DOMAIN done_count : done_count[i] = 0)
  /\ [][\A b \in SingleBlocks :
          blk'[b] # blk[b] => (hist' = hist /\ done_count' = done_count)]_vars

\* the kernel is over on a level with a node on one block next to a node on
\* several: the single block has found a split for its node, and the global
\* histogram and the done counters hold what the blocks of the other node put
\* there and nothing of the single block
C24_Witness ==
  /\ KernelDone
  /\ \E b \in SingleBlocks :
       /\ node_split[NidOf(b)].colid >= 0
       /\ node_split[NidOf(b)] = blk[b].sp
       /\ \E o \in Grid \ SingleBlocks :
            /\ done_count[DoneIndex(o)] = workload_info[o[1]].num_blocks
            /\ HistogramTotal(LoadHistogram(hist, histOffset(o))) > 0
       /\ SumTo(hist, Cardinality(DOMAIN hist)) = gridDim_y * node_item[0].instances.count

\* the blocks of the nodes that are processed by several blocks
LargeBlocks == Grid \ SingleBlocks

\* the cells of the global histogram buffer that block b adds into
SliceOf(b) == histOffset(b) .. ((histOffset(b) + shared_histogram_len) - 1)

\* the pdf histogram of the rows that block b visits
OwnHistogram(b) ==
  HistogramFrom(node_item[NidOf(b)], EmptyHistogram, node_item[NidOf(b)].instances.begin,
                ColOf(b), workload_info[b[1]].offset_blockid, workload_info[b[1]].num_blocks)

RECURSIVE AddedFrom(_, _, _)
\* sum of the histograms of the blocks x, x + 1, ... of node nid and column y
\* that are past their addition into the global histogram
AddedFrom(nid, y, x) ==
  IF x \notin DOMAIN workload_info THEN EmptyHistogram
  ELSE LET rest == AddedFrom(nid, y, x + 1)
       IN IF workload_info[x].nodeid = nid /\ blk[<<x, y>>].pc # "start"
          THEN [i \in DOMAIN rest |-> rest[i] + OwnHistogram(<<x, y>>)[i]]
          ELSE rest

\* C25: the slice of the global histogram buffer of a (large node, feature
\* block) pair starts at ((large_nid * gridDim.y) + blockIdx.y) * nbins *
\* NumClasses, has nbins * NumClasses cells and lies in the buffer; the slices
\* of different pairs are disjoint, so that a block adds only into cells of its
\* own pair, and a slice holds what the blocks of its pair have added and
\* nothing of the blocks of other nodes or features
C25_HistogramSlicesDisjoint ==
  /\ [](\A b \in LargeBlocks :
          /\ histOffset(b)
               = ((workload_info[b[1]].large_nodeid * gridDim_y) + b[2]) * (nbins * NumClasses)
          /\ Cardinality(SliceOf(b)) = nbins * NumClasses
          /\ SliceOf(b) \subseteq DOMAIN hist
          /\ \A o \in LargeBlocks :
               IF NidOf(o) = NidOf(b) /\ ColOf(o) = ColOf(b)
               THEN SliceOf(o) = SliceOf(b)
               ELSE SliceOf(o) \cap SliceOf(b) = {}
          /\ workload_info[b[1]].offset_blockid = 0 =>
               LoadHistogram(hist, histOffset(b)) = AddedFrom(NidOf(b), ColOf(b), 0))
  /\ [][\A b \in LargeBlocks :
          blk'[b] # blk[b] =>
            \A i \in (DOMAIN hist) \ SliceOf(b) : hist'[i] = hist[i]]_vars

\* the kernel is over for two nodes on two blocks each: the four slices hold
\* the histograms of their own node and feature, which differ from one another
C25_Witness ==
  /\ KernelDone
  /\ Cardinality({NidOf(b) : b \in LargeBlocks}) = 2
  /\ \A b \in LargeBlocks :
       /\ LoadHistogram(hist, histOffset(b)) = NodeHistogram(NidOf(b), ColOf(b))
       /\ HistogramTotal(LoadHistogram(hist, histOffset(b))) > 0
       /\ \A o \in LargeBlocks :
            (NidOf(o) # NidOf(b) \/ ColOf(o) # ColOf(b)) =>
              LoadHistogram(hist, histOffset(o)) # LoadHistogram(hist, histOffset(b))

\* h[from] + ... + h[to]
SumRange(h, from, to) == SumTo([j \in 0 .. (to - from) |-> h[from + j]], (to - from) + 1)

\* pdf_to_cdf on the nbins bins at offset_pdf of pdf has given result: bin i
\* holds the sum of the original bins 0 .. i, every other entry is as it was,
\* and the value returned is the sum of all original bins
IsCdfOf(result, pdf, offset_pdf) ==
  /\ DOMAIN result.shared_histogram = DOMAIN pdf
  /\ \A i \in DOMAIN pdf :
       result.shared_histogram[i] =
         (IF (i - offset_pdf) \in 0 .. (nbins - 1)
          THEN SumRange(pdf, offset_pdf, i) ELSE pdf[i])
  /\ result.total_sum = SumRange(pdf, offset_pdf, (offset_pdf + nbins) - 1)

\* C26: pdf_to_cdf replaces bins 0 .. nbins - 1 in place by their inclusive
\* prefix sums, also when nbins is larger than TPB or no multiple of it, leaves
\* the entries at nbins and above (and those of the classes before) as they
\* are and returns the sum of all original bins; after the calls of the kernel
\* for all classes the shared histogram of a block holds, for every class, the
\* prefix sums of the histogram of its node
C26_PdfToCdf ==
  \A b \in Grid :
    /\ blk[b].pc = "scan" =>
         \A c \in 0 .. (NumClasses - 1) :
           IsCdfOf(pdf_to_cdf(blk[b].shared_histogram, nbins * c, nbins),
                   blk[b].shared_histogram, nbins * c)
    /\ blk[b].pc \in {"lock", "compare", "update", "done"} =>
         \A c \in 0 .. (NumClasses - 1) : \A i \in 0 .. (nbins - 1) :
           blk[b].shared_histogram[(nbins * c) + i] =
             SumRange(NodeHistogram(NidOf(b), ColOf(b)), nbins * c, (nbins * c) + i)

\* a histogram with more bins than threads, their number no multiple of TPB,
\* has been scanned; samples of both classes are in it, and those of one class
\* lie in bins of the first batch and in a bin of the last, shorter one
C26_Witness ==
  /\ nbins > TPB
  /\ nbins % TPB # 0
  /\ \E b \in Grid :
       /\ blk[b].pc = "lock"
       /\ \A c \in 0 .. (NumClasses - 1) :
            blk[b].shared_histogram[(nbins * c) + (nbins - 1)] > 0
       /\ \E c \in 0 .. (NumClasses - 1) :
            /\ blk[b].shared_histogram[(nbins * c) + (TPB - 1)] > 0
            /\ blk[b].shared_histogram[(nbins * c) + (nbins - 1)]
                 > blk[b].shared_histogram[(nbins * c) + (TPB - 1)]

\* the positions of the row-id array
RowPositions == DOMAIN rowids

\* C27: partitionSamples changes the row-id array only by swaps of two entries
\* that both lie in the range [begin, begin + count) of its node, one before
\* and one at or behind the partition point: the row ids outside the range
\* stay as they are, the range keeps its multiset of row ids and the whole
\* array stays a permutation of the row ids at launch, whether or not
\* split.nLeft is the true number of rows with a value <= quesval
C27_SwapsStayInRange ==
  /\ [](/\ \A r \in 0 .. (NumRows - 1) :
            Occurrences(rowids, RowPositions, r) = Occurrences(launch_rowids, RowPositions, r)
        /\ \A b \in Blocks : SameMultiset(b)
        /\ \A p \in RowPositions :
            (\A b \in Blocks : p \notin RangeOf(b)) => rowids[p] = launch_rowids[p])
  /\ [][\A b \in Blocks :
          (cta[b].pc = "loop" /\ cta'[b] # cta[b]) =>
            \A p \in RowPositions :
              rowids'[p] # rowids[p] =>
                /\ p \in RangeOf(b)
                /\ \E q \in RangeOf(b) :
                     /\ (p < cta[b].part) # (q < cta[b].part)
                     /\ rowids'[p] = rowids[q]
                     /\ rowids'[q] = rowids[p]]_vars

\* a block has returned from partitionSamples for a range that does not start
\* at 0, called with an nLeft that is not the true count, and has moved rows
C27_Witness ==
  \E b \in Blocks :
    /\ cta[b].pc = "done"
    /\ splits[b].nLeft # TrueLeft(b)
    /\ work_items[b].instances.begin > 0
    /\ \E p \in RangeOf(b) : rowids[p] # launch_rowids[p]

RECURSIVE RunPartition(_, _, _)
\* the row ids after partitionSamples has run alone from registers c to its end
RunPartition(c, split, rids) ==
  IF c.pc = "loop" /\ LoopCond(c)
  THEN LET r == partitionSamples(c, split, rids)
       IN RunPartition(r.cta, split, r.rowids)
  ELSE rids

\* the row ids after block b has run alone on rids from the start of the kernel
RunBlock(b, rids) ==
  IF SplitNotValid(splits[b], min_impurity_decrease, min_samples_leaf,
                   work_items[b].instances.count)
  THEN rids
  ELSE RunPartition(EnterPartition(splits[b], work_items[b]), splits[b], rids)

RECURSIVE RunLevelFrom(_, _)
\* the row ids after the blocks b, b + 1, ... of the level have run one after the other
RunLevelFrom(b, rids) ==
  IF b > Len(work_items) THEN rids ELSE RunLevelFrom(b + 1, RunBlock(b, rids))

\* the positions of the row-id array that block b reads or writes in its next
\* iteration: rowids[loff] for loff < part, rowids[roff] for roff < end, and
\* the swapped positions among them
Footprint(b) ==
  IF cta[b].pc = "loop" /\ LoopCond(cta[b])
  THEN {cta[b].loffset + t : t \in {u \in Threads : cta[b].loffset + u < cta[b].part}}
         \cup {cta[b].roffset + t : t \in {u \in Threads : cta[b].roffset + u < cta[b].end}}
  ELSE {}

\* C28: the blocks of nodeSplitKernel of one level work on pairwise disjoint
\* instance ranges, each block reads and writes row-id positions of its own
\* range only, so no two blocks touch the same position; the part of the
\* array in the range of a block is at every moment what the block alone
\* would have left there, and after the level the array is the one that the
\* blocks give when run one after the other, for every interleaving
C28_LevelDeterministic ==
  /\ \A b \in Blocks :
       /\ Footprint(b) \subseteq RangeOf(b)
       /\ \A o \in Blocks :
            o # b => (RangeOf(o) \cap RangeOf(b) = {} /\ Footprint(o) \cap Footprint(b) = {})
       /\ cta[b].pc \in {"rejected", "done"} =>
            \A p \in RangeOf(b) : rowids[p] = RunBlock(b, launch_rowids)[p]
       /\ cta[b].pc = "start" => \A p \in RangeOf(b) : rowids[p] = launch_rowids[p]
       /\ cta[b].pc = "loop" =>
            RunPartition(cta[b], splits[b], rowids) = RunBlock(b, rowids)
  /\ (phase = "kernel" /\ \A b \in Blocks : cta[b].pc \in {"rejected", "done"}) =>
       rowids = RunLevelFrom(1, launch_rowids)

\* the level is over for two blocks that have both run the swap loop on their
\* ranges, and one of them has moved rows
C28_Witness ==
  /\ phase = "kernel"
  /\ \A b \in Blocks : cta[b].pc \in {"rejected", "done"}
  /\ \E b \in Blocks : \E o \in Blocks :
       /\ o # b
       /\ cta[b].pc = "done" /\ cta[b].iters >= 1
       /\ cta[o].pc = "done" /\ cta[o].iters >= 1
       /\ \E p \in RangeOf(b) : rowids[p] # launch_rowids[p]

\* the indices of the boundaries of the call that are not below d
NotBelow == {i \in 0 .. (lb.nbins - 1) : lb.sbins[i] >= lb.d}

\* the smallest index i with sbins[i] >= d, or nbins - 1 when there is none
FirstNotBelow ==
  IF NotBelow = {} THEN lb.nbins - 1
  ELSE CHOOSE i \in NotBelow : \A j \in NotBelow : i <= j

\* C29: for sbins sorted ascending and nbins >= 1, lower_bound ends, every
\* iteration narrowing [start, end], and returns the smallest index i with
\* sbins[i] >= d, or nbins - 1 when no boundary is >= d; the result lies in
\* [0, nbins - 1], so that the increment of the histogram falls into exactly
\* one bin of the class of the row
C29_LowerBound ==
  /\ [](lb # <<>> =>
          /\ 0 <= lb.start /\ lb.start <= lb.end /\ lb.end <= lb.nbins - 1
          /\ lb.iters <= lb.nbins - 1
          /\ (lb.end - lb.start) + lb.iters <= lb.nbins - 1
          /\ lb.pc = "returned" =>
               /\ lb.start = FirstNotBelow
               /\ lb.start = lower_bound(lb.sbins, lb.nbins, lb.d)
               /\ lb.start \in 0 .. (lb.nbins - 1)
               /\ \A c \in 0 .. (NumClasses - 1) :
                    ((lb.nbins * c) + lb.start) \in (lb.nbins * c) .. ((lb.nbins * (c + 1)) - 1))
  /\ [][(lb # <<>> /\ lb.pc = "loop" /\ lb'.pc = "loop") =>
          (lb'.end - lb'.start) < (lb.end - lb.start)]_vars

\* lower_bound has returned after two iterations on boundaries with a repeated
\* value, for a d that equals the repeated boundary
C29_Witness ==
  /\ lb # <<>>
  /\ lb.pc = "returned"
  /\ lb.iters >= 2
  /\ lb.start > 0
  /\ lb.start < lb.nbins - 1
  /\ lb.sbins[lb.start] = lb.d
  /\ lb.sbins[lb.start + 1] = lb.d

\* the candidates that the call in progress counts for its pivot
CountedBefore == {i \in 0 .. (N - 1) : i # sel_k /\ CountsBefore(i, sel_k)}

\* C30: select returns the same value to every thread of the calling block,
\* in whatever order the threads add their counts to blksum: every thread
\* reads, behind the barrier, the number of candidates counted for the pivot,
\* which for 0 <= k < N lies in [0, N - 1]; so the threads of a block of
\* computeSplitKernel all get the same column, a column of the input
C30_SelectUniformValue ==
  sel_k # -1 =>
    /\ sel_k \in 0 .. (N - 1)
    /\ blksum = SumTo([i \in 0 .. (TPB - 1) |-> IF i \in added THEN cnt[i] ELSE 0], TPB)
    /\ \A t \in Threads :
         ret[t] # -1 =>
           /\ ret[t] = Cardinality(CountedBefore)
           /\ ret[t] \in 0 .. (N - 1)
           /\ \A u \in Threads : ret[u] # -1 => ret[u] = ret[t]

\* every thread has read its return value of a call in which several threads
\* had a positive count to add, and the value is not 0
C30_Witness ==
  /\ sel_k # -1
  /\ \A t \in Threads : ret[t] > 0
  /\ Cardinality({t \in Threads : cnt[t] > 0}) >= 2
  /\ N = SelMaxN

====
